---- MODULE Spec2Model ----
(***************************************************************************)
(* Stream response assembler, content classifier and artifact extractor of *)
(* the code-search front end (handleSearch, parseAgentContent,             *)
(* extractArtifacts) together with the message store of AgentService.      *)
(*                                                                         *)
(* Text is modelled as a sequence of lexemes.  Every lexeme stands for one *)
(* fixed piece of text; the characters that the regular expressions and    *)
(* JSON.parse look at (braces, brackets, commas, fences, white space)      *)
(* are lexemes of their own, so matching on lexemes is matching on text.   *)
(***************************************************************************)
EXTENDS Integers, Sequences, FiniteSets, TLC

(***************************************************************************)
(* Lexemes                                                                 *)
(***************************************************************************)
LBrace == "{"
RBrace == "}"
LBrack == "["
RBrack == "]"
Comma == ","
\* three backquotes
Fence == "<fence>"
Space == " "
Newline == "NL"
\* "status":"input_required"
StatusIR == "status:input_required"
\* "status":"ok"
StatusOk == "status:ok"
\* "question":"Which branch?"
QuestionQ == "question:Which branch?"
\* "question":""
QuestionEmpty == "question:"
\* "a":   (a member key, to be followed by a value)
KeyA == "a:"
\* "tasks":   (a member key, to be followed by a value)
KeyTasks == "tasks:"
\* "repository_analysis":   (a member key, to be followed by a value)
KeyRepo == "repository_analysis:"
\* "summary":"def"
SummaryS == "summary:def"
\* "summary":""
SummaryEmpty == "summary:"
\* 1
Num == "1"
\* a word of letters carrying no progress vocabulary, e.g. def
Word == "def"
\* the progress word
Processing == "Processing"
\* the language tag of a fenced block
JsonTag == "json"
\* a path-shaped token
PathTok == "src/a.py"

WhiteSpace == {Space, Newline}

(***************************************************************************)
(* String helpers: String.prototype.trim, includes, startsWith, join       *)
(***************************************************************************)
RECURSIVE TrimLeft(_)
TrimLeft(s) ==
    IF s = <<>> THEN <<>>
    ELSE IF Head(s) \in WhiteSpace THEN TrimLeft(Tail(s)) ELSE s

RECURSIVE TrimRight(_)
TrimRight(s) ==
    IF s = <<>> THEN <<>>
    ELSE IF s[Len(s)] \in WhiteSpace THEN TrimRight(SubSeq(s, 1, Len(s) - 1)) ELSE s

Trim(s) == TrimRight(TrimLeft(s))

Includes(s, tok) == \E i \in 1..Len(s) : s[i] = tok

StartsWith(s, prefix) ==
    /\ Len(s) >= Len(prefix)
    /\ SubSeq(s, 1, Len(prefix)) = prefix

RECURSIVE Join(_, _)
Join(list, sep) ==
    IF list = <<>> THEN <<>>
    ELSE IF Len(list) = 1 THEN list[1]
    ELSE list[1] \o <<sep>> \o Join(Tail(list), sep)

RECURSIVE StripWhite(_)
StripWhite(s) ==
    IF s = <<>> THEN <<>>
    ELSE IF Head(s) \in WhiteSpace THEN StripWhite(Tail(s))
    ELSE <<Head(s)>> \o StripWhite(Tail(s))

(***************************************************************************)
(* JSON.parse.  A value is a record [k, fields, text]:                     *)
(*   k = "object": fields is the set of <<key, value text>> members        *)
(*   k = "object" | "array" | "number": text is the text of the value,     *)
(*       white space removed                                               *)
(*   k = "string": text is the string                                      *)
(*   k = "invalid": JSON.parse throws SyntaxError                          *)
(*   k = "undefined": the JavaScript value undefined                       *)
(***************************************************************************)
Invalid == [k |-> "invalid", fields |-> {}, text |-> <<>>]
Undefined == [k |-> "undefined", fields |-> {}, text |-> <<>>]
JObject(fs, t) == [k |-> "object", fields |-> fs, text |-> t]
JArray(t) == [k |-> "array", fields |-> {}, text |-> t]
JNumber(t) == [k |-> "number", fields |-> {}, text |-> t]
JString(t) == [k |-> "string", fields |-> {}, text |-> t]

\* nesting depth after the first i lexemes of s
RECURSIVE Depth(_, _)
Depth(s, i) ==
    IF i = 0 THEN 0
    ELSE Depth(s, i - 1)
         + (IF s[i] \in {LBrace, LBrack} THEN 1 ELSE 0)
         - (IF s[i] \in {RBrace, RBrack} THEN 1 ELSE 0)

\* the segments of s between its commas of nesting depth 0
RECURSIVE SplitTop(_, _, _)
SplitTop(s, from, i) ==
    IF i > Len(s) THEN <<SubSeq(s, from, Len(s))>>
    ELSE IF s[i] = Comma /\ Depth(s, i) = 0
         THEN <<SubSeq(s, from, i - 1)>> \o SplitTop(s, i + 1, i + 1)
         ELSE SplitTop(s, from, i + 1)

RECURSIVE IsValue(_)
RECURSIVE IsMember(_)
IsMember(m) ==
    \/ m \in {<<StatusIR>>, <<StatusOk>>, <<QuestionQ>>, <<QuestionEmpty>>, <<SummaryS>>,
               <<SummaryEmpty>>}
    \/ /\ Len(m) >= 2
       /\ m[1] \in {KeyA, KeyTasks, KeyRepo}
       /\ IsValue(Tail(m))

IsValue(v) ==
    \/ v = <<Num>>
    \/ /\ Len(v) >= 2
       /\ v[1] = LBrace /\ v[Len(v)] = RBrace
       /\ LET inner == SubSeq(v, 2, Len(v) - 1)
              parts == SplitTop(inner, 1, 1)
          IN  \/ inner = <<>>
              \/ \A i \in 1..Len(parts) : IsMember(parts[i])
    \/ /\ Len(v) >= 2
       /\ v[1] = LBrack /\ v[Len(v)] = RBrack
       /\ LET inner == SubSeq(v, 2, Len(v) - 1)
              parts == SplitTop(inner, 1, 1)
          IN  \/ inner = <<>>
              \/ \A i \in 1..Len(parts) : IsValue(parts[i])

MemberKey(m) ==
    IF m \in {<<StatusIR>>, <<StatusOk>>} THEN "status"
    ELSE IF m \in {<<QuestionQ>>, <<QuestionEmpty>>} THEN "question"
    ELSE IF m \in {<<SummaryS>>, <<SummaryEmpty>>} THEN "summary"
    ELSE IF m[1] = KeyA THEN "a"
    ELSE IF m[1] = KeyTasks THEN "tasks" ELSE "repository_analysis"

MemberValue(m) ==
    IF m = <<StatusIR>> THEN <<"input_required">>
    ELSE IF m = <<StatusOk>> THEN <<"ok">>
    ELSE IF m = <<QuestionQ>> THEN <<"Which branch?">>
    ELSE IF m = <<QuestionEmpty>> THEN <<>>
    ELSE IF m = <<SummaryS>> THEN <<"def">>
    ELSE IF m = <<SummaryEmpty>> THEN <<>>
    ELSE Tail(m)

\* the members of an object; a repeated key keeps its last value
ObjectFields(parts) ==
    { <<MemberKey(parts[i]), MemberValue(parts[i])>> :
        i \in { j \in 1..Len(parts) :
                  \A l \in (j + 1)..Len(parts) :
                      MemberKey(parts[l]) # MemberKey(parts[j]) } }

JSONParse(s) ==
    LET v == StripWhite(s)
    IN  IF ~IsValue(v) THEN Invalid
        ELSE IF v = <<Num>> THEN JNumber(v)
        ELSE IF v[1] = LBrack THEN JArray(v)
        ELSE LET inner == SubSeq(v, 2, Len(v) - 1)
             IN  IF inner = <<>> THEN JObject({}, v)
                 ELSE JObject(ObjectFields(SplitTop(inner, 1, 1)), v)

\* parsed && typeof parsed === 'object'
IsObjectValue(p) == p.k \in {"object", "array"}

HasField(p, key) == \E f \in p.fields : f[1] = key
Field(p, key) == (CHOOSE f \in p.fields : f[1] = key)[2]

\* parsed.status === 'input_required'
StatusIsInputRequired(p) ==
    /\ p.k = "object"
    /\ HasField(p, "status")
    /\ Field(p, "status") = <<"input_required">>

\* truthiness of parsed.question
QuestionTruthy(p) ==
    /\ p.k = "object"
    /\ HasField(p, "question")
    /\ Field(p, "question") # <<>>

(***************************************************************************)
(* parseAgentContent                                                       *)
(***************************************************************************)
\* parseAgentContent without the test of parsed.question
parseAgentContent_NoQuestionTest(content) ==
    LET parsed == JSONParse(content)
    IN  IF IsObjectValue(parsed)
        THEN IF StatusIsInputRequired(parsed)
             THEN [type |-> "input_required", data |-> parsed]
             ELSE [type |-> "artifact", data |-> parsed]
        ELSE [type |-> "message", data |-> JString(content)]

parseAgentContent(content) ==
    LET parsed == JSONParse(content)
    IN  IF IsObjectValue(parsed)
        THEN IF StatusIsInputRequired(parsed) /\ QuestionTruthy(parsed)
             THEN [type |-> "input_required", data |-> parsed]
             ELSE [type |-> "artifact", data |-> parsed]
        ELSE [type |-> "message", data |-> JString(content)]

(***************************************************************************)
(* Regular expressions of extractArtifacts                                 *)
(***************************************************************************)
\* the least index >= pos of s holding tok, or 0
RECURSIVE IndexFrom(_, _, _)
IndexFrom(s, tok, pos) ==
    IF pos > Len(s) THEN 0
    ELSE IF s[pos] = tok THEN pos ELSE IndexFrom(s, tok, pos + 1)

\* the successive non-overlapping matches of  open [\s\S]*? close  from pos on
RECURSIVE LazyMatches(_, _, _, _)
LazyMatches(s, open, close, pos) ==
    LET i == IndexFrom(s, open, pos)
        j == IF i = 0 THEN 0 ELSE IndexFrom(s, close, i + 1)
    IN  IF i = 0 \/ j = 0 THEN <<>>
        ELSE <<SubSeq(s, i, j)>> \o LazyMatches(s, open, close, j + 1)

\* content.match(/\{[\s\S]*?\}/g)
BraceMatches(s) == LazyMatches(s, LBrace, RBrace, 1)

\* content.match(/```[\s\S]*?```/g)
FenceMatches(s) == LazyMatches(s, Fence, Fence, 1)

\* lexemes made only of characters of [a-zA-Z0-9_/.,-]
PathClass == {Word, Processing, JsonTag, Num, PathTok, Comma}

\* the index of the last lexeme of the white-space-free run starting at p
RECURSIVE RunEnd(_, _)
RunEnd(s, p) ==
    IF p > Len(s) \/ s[p] \in WhiteSpace THEN p - 1 ELSE RunEnd(s, p + 1)

\* run matches  [a-zA-Z0-9_-]+\/[a-zA-Z0-9_/.,-]+\.[a-zA-Z0-9]+  as a whole
IsPathRun(run) ==
    /\ run # <<>>
    /\ \A i \in 1..Len(run) : run[i] \in PathClass
    /\ \E i \in 1..Len(run) : run[i] = PathTok
    /\ LET first == CHOOSE i \in 1..Len(run) :
                        run[i] = PathTok /\ \A j \in 1..(i - 1) : run[j] # PathTok
           last == CHOOSE i \in 1..Len(run) :
                        run[i] = PathTok /\ \A j \in (i + 1)..Len(run) : run[j] # PathTok
       IN  /\ \A j \in 1..(first - 1) : run[j] # Comma
           /\ \A j \in (last + 1)..Len(run) : run[j] # Comma

\* a match of  (?:^|\s)(path)(?:\s|$)  beginning at p:  <<index of the first
\* lexeme of the path, index of its last lexeme>>, or <<0, 0>>
PathMatchAt(s, p) ==
    LET atLineStart == p = 1 \/ s[p - 1] = Newline
        e1 == RunEnd(s, p)
        e2 == RunEnd(s, p + 1)
    IN  IF atLineStart /\ IsPathRun(SubSeq(s, p, e1)) THEN <<p, e1>>
        ELSE IF s[p] \in WhiteSpace /\ IsPathRun(SubSeq(s, p + 1, e2)) THEN <<p + 1, e2>>
        ELSE <<0, 0>>

\* [...content.matchAll(filePathPattern)].map(match => match[1]); the white
\* space that ends a match is consumed by it
RECURSIVE FilePathMatches(_, _)
FilePathMatches(s, pos) ==
    IF pos > Len(s) THEN <<>>
    ELSE LET m == PathMatchAt(s, pos)
         IN  IF m = <<0, 0>> THEN FilePathMatches(s, pos + 1)
             ELSE <<SubSeq(s, m[1], m[2])>> \o FilePathMatches(s, m[2] + 2)

(***************************************************************************)
(* extractArtifacts.  now is the value of Date.now() during the call.      *)
(* metadata is lastMetadata; rawData is its raw_data (Undefined if unset). *)
(***************************************************************************)
Artifact(prefix, n, type, content) ==
    [id |-> <<prefix, n>>, type |-> type, content |-> content]

\* separates the items of a list of strings
ListSep == "|"
JList(items) == [k |-> "list", fields |-> {}, text |-> Join(items, ListSep)]

\* typeof v === 'object' for the value of a member given by its text
MemberIsObject(p, key) ==
    /\ HasField(p, key)
    /\ IsObjectValue(JSONParse(Field(p, key)))

RECURSIVE CodeArtifacts(_, _)
CodeArtifacts(blocks, index) ==
    IF index > Len(blocks) THEN <<>>
    ELSE LET block == blocks[index]
             codeContent == Trim(SubSeq(block, 2, Len(block) - 1))
             parsed == JSONParse(codeContent)
         IN  (IF IsObjectValue(parsed) /\ StatusIsInputRequired(parsed)
              THEN <<>>
              ELSE <<Artifact("artifact_code", index - 1, "code", JString(block))>>)
             \o CodeArtifacts(blocks, index + 1)

\* InlineJsonArtifacts without the test of parsed.status
RECURSIVE InlineJsonArtifacts_NoStatusTest(_, _)
InlineJsonArtifacts_NoStatusTest(matches, index) ==
    IF index > Len(matches) THEN <<>>
    ELSE LET parsed == JSONParse(matches[index])
         IN  (IF IsObjectValue(parsed)
              THEN <<Artifact("artifact_json_inline", index - 1, "json", parsed)>>
              ELSE <<>>)
             \o InlineJsonArtifacts_NoStatusTest(matches, index + 1)

RECURSIVE InlineJsonArtifacts(_, _)
InlineJsonArtifacts(matches, index) ==
    IF index > Len(matches) THEN <<>>
    ELSE LET parsed == JSONParse(matches[index])
         IN  (IF IsObjectValue(parsed) /\ ~StatusIsInputRequired(parsed)
              THEN <<Artifact("artifact_json_inline", index - 1, "json", parsed)>>
              ELSE <<>>)
             \o InlineJsonArtifacts(matches, index + 1)

FileListArtifacts(content, now) ==
    LET filePaths == FilePathMatches(content, 1)
    IN  IF Len(filePaths) > 3
        THEN <<Artifact("artifact_files", now, "file_list", JList(filePaths))>>
        ELSE <<>>

\* extractArtifacts going on with the rules for the content after the artifact
\* of the raw object
extractArtifacts_NoStop(content, rawData, now) ==
    (IF IsObjectValue(rawData)
     THEN IF MemberIsObject(rawData, "repository_analysis")
          THEN <<Artifact("artifact_repo_analysis", now, "repository_analysis",
                          JSONParse(Field(rawData, "repository_analysis")))>>
          ELSE <<Artifact("artifact_json", now, "json", rawData)>>
     ELSE <<>>)
    \o (LET parsed == JSONParse(Trim(content))
        IN  IF IsObjectValue(parsed)
            THEN IF ~StatusIsInputRequired(parsed)
                 THEN <<Artifact("artifact_json", now, "json", parsed)>>
                 ELSE <<>>
            ELSE CodeArtifacts(FenceMatches(content), 1)
                 \o InlineJsonArtifacts(BraceMatches(content), 1)
                 \o FileListArtifacts(content, now))

extractArtifacts(content, rawData, now) ==
    IF IsObjectValue(rawData)
    THEN IF MemberIsObject(rawData, "repository_analysis")
         THEN <<Artifact("artifact_repo_analysis", now, "repository_analysis",
                         JSONParse(Field(rawData, "repository_analysis")))>>
         ELSE <<Artifact("artifact_json", now, "json", rawData)>>
    ELSE LET parsed == JSONParse(Trim(content))
         IN  IF IsObjectValue(parsed)
             THEN IF ~StatusIsInputRequired(parsed)
                  THEN <<Artifact("artifact_json", now, "json", parsed)>>
                  ELSE <<>>
             ELSE CodeArtifacts(FenceMatches(content), 1)
                  \o InlineJsonArtifacts(BraceMatches(content), 1)
                  \o FileListArtifacts(content, now)

(***************************************************************************)
(* formatMessageContent: the text of the Text element it renders           *)
(***************************************************************************)
\* text.replace(m, ''): the first occurrence of m is removed
RemoveFirst(text, m) ==
    LET starts == {i \in 1..(Len(text) - Len(m) + 1) :
                       SubSeq(text, i, i + Len(m) - 1) = m}
    IN  IF starts = {} THEN text
        ELSE LET i == CHOOSE i \in starts : \A j \in starts : i <= j
             IN  SubSeq(text, 1, i - 1) \o SubSeq(text, i + Len(m), Len(text))

\* the first loop over jsonMatches: the question of the first match that
\* parses to an object with status input_required and a truthy question,
\* or <<>> (questionText = null)
RECURSIVE QuestionText(_, _)
QuestionText(matches, index) ==
    IF index > Len(matches) THEN <<>>
    ELSE LET parsed == JSONParse(matches[index])
         IN  IF IsObjectValue(parsed) /\ StatusIsInputRequired(parsed) /\ QuestionTruthy(parsed)
             THEN Field(parsed, "question")
             ELSE QuestionText(matches, index + 1)

\* StripInputRequired leaving the JSON in the text
StripInputRequired_Keep(text, matches, index) == text

\* the second loop over jsonMatches: every match that parses to an object
\* with status input_required is removed from textContent, which is trimmed
RECURSIVE StripInputRequired(_, _, _)
StripInputRequired(text, matches, index) ==
    IF index > Len(matches) THEN text
    ELSE LET parsed == JSONParse(matches[index])
         IN  StripInputRequired(
                 IF IsObjectValue(parsed) /\ StatusIsInputRequired(parsed)
                 THEN Trim(RemoveFirst(text, matches[index]))
                 ELSE text,
                 matches, index + 1)

\* .replace(/```json/g, '').replace(/```/g, '')
RECURSIVE RemoveFences(_)
RemoveFences(s) ==
    IF s = <<>> THEN <<>>
    ELSE IF Len(s) >= 2 /\ s[1] = Fence /\ s[2] = JsonTag
         THEN RemoveFences(SubSeq(s, 3, Len(s)))
    ELSE IF s[1] = Fence THEN RemoveFences(Tail(s))
    ELSE <<Head(s)>> \o RemoveFences(Tail(s))

\* the index of the last lexeme of the white-space run starting at p
RECURSIVE WhiteEnd(_, _)
WhiteEnd(s, p) ==
    IF p > Len(s) \/ s[p] \notin WhiteSpace THEN p - 1 ELSE WhiteEnd(s, p + 1)

\* .replace(/^\s*json\s*$/gm, ''): a match begins at the start of a line,
\* runs over white space to the word json and on over white space to the end
\* of the text or to the last line end of that white space
RECURSIVE RemoveJsonLines(_, _)
RemoveJsonLines(s, pos) ==
    IF pos > Len(s) THEN <<>>
    ELSE LET w == WhiteEnd(s, pos) + 1
             e == WhiteEnd(s, w + 1)
             nls == {n \in (w + 1)..e : s[n] = Newline}
             end == IF ~(pos = 1 \/ s[pos - 1] = Newline) THEN 0
                    ELSE IF w > Len(s) THEN 0
                    ELSE IF s[w] # JsonTag THEN 0
                    ELSE IF e = Len(s) THEN e
                    ELSE IF nls = {} THEN 0
                    ELSE (CHOOSE n \in nls : \A m \in nls : m <= n) - 1
         IN  IF end = 0 THEN <<s[pos]>> \o RemoveJsonLines(s, pos + 1)
             ELSE RemoveJsonLines(s, end + 1)

\* .replace(/\n\s*\n/g, '\n')
RECURSIVE CollapseBlankLines(_, _)
CollapseBlankLines(s, pos) ==
    IF pos > Len(s) THEN <<>>
    ELSE LET e == WhiteEnd(s, pos)
             nls == {n \in (pos + 1)..e : s[n] = Newline}
         IN  IF s[pos] = Newline /\ nls # {}
             THEN <<Newline>>
                  \o CollapseBlankLines(s, (CHOOSE n \in nls : \A m \in nls : m <= n) + 1)
             ELSE <<s[pos]>> \o CollapseBlankLines(s, pos + 1)

\* textContent.includes(questionText): the question is a substring of the
\* lexeme that spells the member holding it
IncludesQuestion(text, question) ==
    \E i \in 1..Len(text) :
        \/ <<text[i]>> = question
        \/ text[i] = QuestionQ /\ question = MemberValue(<<QuestionQ>>)

\* content.split(/(```[\s\S]*?```)/g) without the parts that start with a
\* fence, joined
RECURSIVE TextParts(_, _)
TextParts(s, pos) ==
    LET i == IndexFrom(s, Fence, pos)
        j == IF i = 0 THEN 0 ELSE IndexFrom(s, Fence, i + 1)
    IN  IF pos > Len(s) THEN <<>>
        ELSE IF i = 0 \/ j = 0 THEN SubSeq(s, pos, Len(s))
        ELSE SubSeq(s, pos, i - 1) \o TextParts(s, j + 1)

\* what formatMessageContent shows for a Message.  kind is "processing" (the
\* box of processing messages), "text" (one Text element: the prompt),
\* "artifact" (the parsed structured data), "artifacts" (text and the
\* artifacts of the metadata) or "parts" (the fallback).
formatMessageContent(content, status, hasProcessing, parsedContent, artifacts) ==
    LET jsonMatches == BraceMatches(content)
        questionText == QuestionText(jsonMatches, 1)
        stripped == StripInputRequired(content, jsonMatches, 1)
        textContent == Trim(CollapseBlankLines(
                           RemoveJsonLines(RemoveFences(stripped), 1), 1))
        parsed == JSONParse(Trim(content))
    IN  IF status = "streaming" /\ hasProcessing /\ Trim(content) = <<>>
        THEN [kind |-> "processing", text |-> <<>>]
        ELSE IF questionText # <<>>
        THEN IF IncludesQuestion(textContent, questionText)
             THEN [kind |-> "text", text |-> textContent]
             ELSE IF textContent # <<>>
             THEN [kind |-> "text",
                   text |-> textContent \o <<Newline, Newline>> \o questionText]
             ELSE [kind |-> "text", text |-> questionText]
        ELSE IF IsObjectValue(parsed) /\ StatusIsInputRequired(parsed) /\ QuestionTruthy(parsed)
        THEN [kind |-> "text", text |-> Field(parsed, "question")]
        ELSE IF parsedContent.type = "input_required"
        THEN [kind |-> "text",
              text |-> IF HasField(parsedContent.data, "question")
                       THEN Field(parsedContent.data, "question") ELSE <<>>]
        ELSE IF parsedContent.type = "artifact"
        THEN [kind |-> "artifact", text |-> parsedContent.data.text]
        ELSE IF artifacts # <<>>
        THEN [kind |-> "artifacts", text |-> Trim(TextParts(content, 1))]
        ELSE [kind |-> "parts", text |-> content]

(***************************************************************************)
(* JSON.stringify(value, null, 2) of a parsed value                        *)
(***************************************************************************)
RECURSIVE Indent(_)
Indent(d) == IF d <= 0 THEN <<>> ELSE <<Space, Space>> \o Indent(d - 1)

RECURSIVE Pretty(_, _, _)
Pretty(t, i, d) ==
    IF i > Len(t) THEN <<>>
    ELSE IF t[i] \in {LBrace, LBrack}
         THEN IF i < Len(t) /\ t[i + 1] \in {RBrace, RBrack}
              THEN <<t[i], t[i + 1]>> \o Pretty(t, i + 2, d)
              ELSE <<t[i], Newline>> \o Indent(d + 1) \o Pretty(t, i + 1, d + 1)
    ELSE IF t[i] \in {RBrace, RBrack}
         THEN <<Newline>> \o Indent(d - 1) \o <<t[i]>> \o Pretty(t, i + 1, d - 1)
    ELSE IF t[i] = Comma
         THEN <<Comma, Newline>> \o Indent(d) \o Pretty(t, i + 1, d)
    ELSE IF t[i] \in {KeyA, KeyTasks, KeyRepo}
         THEN <<t[i], Space>> \o Pretty(t, i + 1, d)
    ELSE <<t[i]>> \o Pretty(t, i + 1, d)

Stringify(v) ==
    IF v.k = "string" THEN <<"\"">> \o v.text \o <<"\"">>
    ELSE Pretty(v.text, 1, 0)

(***************************************************************************)
(* State of one query: the locals of handleSearch, the agent Message in    *)
(* the message store, the clock, and the frames of the stream so far.      *)
(***************************************************************************)
VARIABLES
    pc,                 \* "streaming" (in the for-await loop), "done", "failed"
    fullContent,
    lastMetadata,
    collectedErrors,
    processingMessages,
    msg,                \* the agent Message held by the store
    now,                \* Date.now()
    frames,             \* number of frames consumed
    lastFrame,          \* the frame consumed last
    prevGenuine,        \* the content of the frame consumed before it, if that
                        \*   was a genuine content frame, else the empty text
    terminalSeen,       \* a terminal frame has been consumed
    pattern,            \* shape of the frame sequence consumed so far
    thrown,             \* message of the Error caught, if any
    exContent,          \* extractor and classifier on their own: the content,
    exRaw,              \*   the raw structured object (raw_data),
    exNow,              \*   Date.now(),
    exParsed,           \*   the result of parseAgentContent,
    exRuns,             \*   the results of the calls of extractArtifacts,
    exRendered,         \*   what formatMessageContent shows
    ssePc,              \* streamAgentQuery: "idle", "fetch", "read" (awaiting
                        \*   reader.read()), "lines" (in the loop over lines),
                        \*   "yielded" (suspended at yield), "done", "threw",
                        \*   "returned" (ended by the consumer)
    sseReader,          \*   "none", "held" or "released"
    sseInput,           \*   the text of the response body
    sseRest,            \*   the part of it not yet read
    sseBuffer,          \*   buffer
    sseLines,           \*   the lines the loop has still to look at
    sseYielded,         \*   the chunks yielded so far
    sseThrown,          \*   message of the Error thrown, if any
    dbRows,             \* retrieval engine: the stored chunk rows,
    dbRegen,            \*   the session under regeneration (0: none), the
                        \*   generation of the rows of session 1, the rows
                        \*   written so far for its next generation,
    dbCall,             \*   the last tool call and its response
    sessionsCache,      \* AgentService: the cached session ids, newest first,
    activeSessionId,    \*   the active session id or NoSession,
    messagesCache,      \*   the messages held for every session id
    currentSession,     \* CodeSearch component state: the session shown,
    currentSessionMessages, \* the messages shown,
    isSearching,        \*   the search flag
    clock,              \* Date.now()
    serverSessions,     \* number of sessions the server has created
    tasks               \* the invocations of handleSearch; missed (not in the
                        \* code) says that an update of it found no Message

streamVars == <<pc, fullContent, lastMetadata, collectedErrors, processingMessages,
                msg, now, frames, lastFrame, prevGenuine, terminalSeen, pattern,
                thrown>>
exVars == <<exContent, exRaw, exNow, exParsed, exRuns, exRendered>>
sseVars == <<ssePc, sseReader, sseInput, sseRest, sseBuffer, sseLines, sseYielded, sseThrown>>
dbVars == <<dbRows, dbRegen, dbCall>>
stVars == <<sessionsCache, activeSessionId, messagesCache, currentSession,
            currentSessionMessages, isSearching, clock, serverSessions, tasks>>
vars == <<streamVars, exVars, sseVars, dbVars, stVars>>

MaxFrames == 3
MaxClock == 1
MaxSessions == 1
MaxQueries == 2

\* lastMetadata = {}
EmptyMetadata ==
    [empty |-> TRUE, response_type |-> "", is_task_complete |-> FALSE,
     require_user_input |-> FALSE, errors |-> FALSE,
     processing_messages |-> FALSE, raw_data |-> Undefined]

NoArtifacts == [present |-> FALSE, list |-> <<>>]
NoParsed == [type |-> "", data |-> Undefined]

\* { ...lastMetadata }.  errors and processing_messages hold references to
\* the arrays collectedErrors and processingMessages (TRUE) or are undefined.
MessageMetadata(meta, artifacts, parsed) ==
    [response_type |-> meta.response_type,
     is_task_complete |-> meta.is_task_complete,
     require_user_input |-> meta.require_user_input,
     errors |-> meta.errors,
     processing_messages |-> meta.processing_messages,
     raw_data |-> meta.raw_data,
     artifacts |-> artifacts,
     parsed_content |-> parsed]

\* the agent Message placeholder of handleSearch
AgentPlaceholder ==
    [content |-> <<>>, status |-> "streaming",
     metadata |-> MessageMetadata(EmptyMetadata,
                                  [present |-> TRUE, list |-> <<>>], NoParsed)]

\* updateMessageInSession with updates = {content, status, metadata}
UpdateMessage(m, content, status, metadata) ==
    [content |-> content, status |-> status, metadata |-> metadata]

\* updateMessageInSession with updates = {content, status}
UpdateMessageContent(m, content, status) ==
    [m EXCEPT !.content = content, !.status = status]

(***************************************************************************)
(* Frames                                                                  *)
(***************************************************************************)
ProcessingText == <<Processing, Space, Word>>
TaskListText == <<Fence, JsonTag, Newline, LBrace, KeyTasks, LBrack, RBrack, RBrace, Newline, Fence>>
CodeText == <<Word, Space, Word>>
InputRequiredText == <<LBrace, StatusIR, Comma, QuestionQ, RBrace>>
SummaryObject == JSONParse(<<LBrace, SummaryS, Comma, KeyA, Num, RBrace>>)
RepoObject == JSONParse(<<LBrace, KeyRepo, LBrace, KeyA, Num, RBrace, RBrace>>)
EmptySummaryObject == JSONParse(<<LBrace, SummaryEmpty, RBrace>>)

FrameContents ==
    {Undefined, JString(<<>>), JString(ProcessingText), JString(TaskListText),
     JString(CodeText), JString(InputRequiredText), SummaryObject, RepoObject,
     EmptySummaryObject}

Frame(content, complete, requireInput, type, response, error) ==
    [content |-> content, is_task_complete |-> complete,
     require_user_input |-> requireInput, type |-> type,
     response |-> response, error |-> error]

\* the frames the model draws from: frames of type final_result, which carry
\* a response; frames without type, which carry a content; frames that carry
\* an error; and frames that ask for user input
Frames ==
    { Frame(c, tc, FALSE, "final_result", r, Undefined) :
        c \in {Undefined, JString(CodeText)}, tc \in BOOLEAN,
        r \in {Undefined, JString(InputRequiredText)} }
    \cup
    { Frame(c, tc, FALSE, "", Undefined, Undefined) :
        c \in FrameContents, tc \in BOOLEAN }
    \cup
    { Frame(c, tc, FALSE, type, Undefined, JString(<<"upstream failed">>)) :
        c \in {Undefined, JString(ProcessingText), JString(CodeText)},
        tc \in BOOLEAN, type \in {"", "final_result"} }
    \cup
    { Frame(c, FALSE, TRUE, "", Undefined, Undefined) :
        c \in {Undefined, JString(ProcessingText), JString(CodeText)} }

NoFrame ==
    [content |-> Undefined, is_task_complete |-> FALSE, require_user_input |-> FALSE,
     type |-> "", response |-> Undefined, error |-> Undefined]

\* truthiness of a frame field
Truthy(v) ==
    /\ v.k # "undefined"
    /\ ~(v.k = "string" /\ v.text = <<>>)

\* error?.error?.message || error?.message || JSON.stringify(error), for an
\* error given as a string
ErrorText(error) == Stringify(error)

\* the predicate isProcessingMessage
IsProcessingMessage(content) ==
    \/ Includes(content, Processing)
    \/ StartsWith(content, <<Fence, JsonTag>>)
    \/ /\ Includes(content, LBrace)
       /\ Includes(content, RBrace)
       /\ Includes(content, KeyTasks)

\* the frame takes the branch of genuine content: it is not terminal, its
\* content is a non-empty string and no processing fragment
IsGenuineContent(chunk) ==
    /\ chunk.type # "final_result"
    /\ ~chunk.is_task_complete /\ Truthy(chunk.content)
    /\ chunk.content.k = "string"
    /\ ~IsProcessingMessage(chunk.content.text)

\* the Errors thrown by streamAgentQuery
HttpError == <<"HTTP error! status: 500">>
NoBodyError == <<"No response body">>
ReadError == <<"network error">>
\* TypeError of content.includes for a content that is no string
IncludesTypeError == <<"content.includes is not a function">>

\* `Error: ${error.message}`
FormatError(message) == <<"Error:", Space>> \o message

\* pattern.shape is "processing" while every frame so far was a non-terminal
\* frame classified as a processing fragment (procs holds their contents in
\* arrival order), "terminated" when exactly one frame followed them, a frame
\* with is_task_complete and a non-empty string content (c), "other" otherwise
NoPattern == [shape |-> "other", procs |-> <<>>, c |-> <<>>]

IsProcessingShaped(chunk) ==
    /\ chunk.type # "final_result" /\ ~chunk.is_task_complete
    /\ chunk.content.k = "string" /\ chunk.content.text # <<>>
    /\ IsProcessingMessage(chunk.content.text)

IsCompleteShaped(chunk) ==
    /\ chunk.type # "final_result" /\ chunk.is_task_complete
    /\ chunk.content.k = "string" /\ chunk.content.text # <<>>

PatternAfter(chunk) ==
    IF pattern.shape = "processing" /\ IsProcessingShaped(chunk)
    THEN [pattern EXCEPT !.procs = Append(@, chunk.content.text)]
    ELSE IF pattern.shape = "processing" /\ IsCompleteShaped(chunk)
    THEN [pattern EXCEPT !.shape = "terminated", !.c = chunk.content.text]
    ELSE NoPattern

StreamInit ==
    /\ pc = "streaming"
    /\ fullContent = <<>>
    /\ lastMetadata = EmptyMetadata
    /\ collectedErrors = <<>>
    /\ processingMessages = <<>>
    /\ msg = AgentPlaceholder
    /\ now = 0
    /\ frames = 0
    /\ lastFrame = NoFrame
    /\ prevGenuine = <<>>
    /\ terminalSeen = FALSE
    /\ pattern = [shape |-> "processing", procs |-> <<>>, c |-> <<>>]
    /\ thrown = <<>>

ExIdle ==
    /\ exContent = <<>>
    /\ exRaw = Undefined
    /\ exNow = 0
    /\ exParsed = [done |-> FALSE, result |-> NoParsed]
    /\ exRuns = <<>>
    /\ exRendered = [done |-> FALSE, result |-> [kind |-> "", text |-> <<>>]]

SseIdle ==
    /\ ssePc = "idle"
    /\ sseReader = "none"
    /\ sseInput = <<>>
    /\ sseRest = <<>>
    /\ sseBuffer = <<>>
    /\ sseLines = <<>>
    /\ sseYielded = <<>>
    /\ sseThrown = <<>>

DbIdle ==
    /\ dbRows = {}
    /\ dbRegen = [session |-> 0, generation |-> 0, staged |-> {}]
    /\ dbCall = [tool |-> "none"]

\* this.activeSessionId = null, useState<CodeSearchSession | null>(null)
NoSession == 0

StoreIdle ==
    /\ sessionsCache = <<>>
    /\ activeSessionId = NoSession
    /\ messagesCache = [s \in 1..MaxSessions |-> <<>>]
    /\ currentSession = NoSession
    /\ currentSessionMessages = <<>>
    /\ isSearching = FALSE
    /\ clock = 0
    /\ serverSessions = 0
    /\ tasks = [q \in 1..MaxQueries |->
                  [pc |-> "idle", session |-> NoSession, query |-> <<>>,
                   agentMessageId |-> 0, missed |-> FALSE]]

Init == StreamInit /\ ExIdle /\ SseIdle /\ DbIdle /\ StoreIdle

(***************************************************************************)
(* handleSearch: one iteration of the for-await loop per frame             *)
(***************************************************************************)
\* ErrorsAfter keeping only the latest error
ErrorsAfter_Replace(chunk) ==
    IF Truthy(chunk.error)
    THEN <<ErrorText(chunk.error)>>
    ELSE collectedErrors

\* collectedErrors after the if (chunk.error) block
ErrorsAfter(chunk) ==
    IF Truthy(chunk.error)
    THEN Append(collectedErrors, ErrorText(chunk.error))
    ELSE collectedErrors

Metadata(responseType, complete, requireInput, errors, rawData) ==
    [empty |-> FALSE, response_type |-> responseType, is_task_complete |-> complete,
     require_user_input |-> requireInput, errors |-> Len(errors) > 0,
     processing_messages |-> TRUE, raw_data |-> rawData]

\* status of updatedMessage
FrameStatus(chunk) ==
    IF chunk.is_task_complete \/ chunk.type = "final_result" THEN "complete" ELSE "streaming"

\* the update at the end of the loop body
PublishUpdate(chunk, content, meta, t) ==
    msg' = UpdateMessage(msg, content, FrameStatus(chunk),
               MessageMetadata(meta,
                   [present |-> TRUE, list |-> extractArtifacts(content, meta.raw_data, t)],
                   parseAgentContent(content)))

\* what every frame does: it is counted, the clock is read
Consume(chunk, t) ==
    /\ pc = "streaming"
    /\ frames < MaxFrames
    /\ frames' = frames + 1
    /\ lastFrame' = chunk
    /\ prevGenuine' = IF IsGenuineContent(lastFrame) THEN lastFrame.content.text ELSE <<>>
    /\ now' = t
    /\ terminalSeen' = (terminalSeen \/ chunk.is_task_complete \/ chunk.type = "final_result")
    /\ pattern' = PatternAfter(chunk)
    /\ collectedErrors' = ErrorsAfter(chunk)

\* chunk.type === 'final_result'
FinalResultFrame ==
    \E chunk \in Frames, t \in now..MaxClock :
        /\ chunk.type = "final_result"
        /\ Consume(chunk, t)
        /\ LET content == IF Truthy(chunk.response) THEN chunk.response.text ELSE <<>>
               meta == Metadata("data", TRUE, FALSE, ErrorsAfter(chunk), Undefined)
           IN  /\ fullContent' = content
               /\ lastMetadata' = meta
               /\ PublishUpdate(chunk, content, meta, t)
        /\ UNCHANGED <<pc, processingMessages, thrown, exVars, sseVars, dbVars, stVars>>

\* CompleteContent without its string branch
CompleteContent_AlwaysStringify(content) ==
    IF content.k = "object" /\ HasField(content, "summary") /\ Field(content, "summary") # <<>>
    THEN Field(content, "summary")
    ELSE Stringify(content)

\* fullContent of the branch chunk.is_task_complete === true && chunk.content
CompleteContent(content) ==
    IF content.k = "object" /\ HasField(content, "summary") /\ Field(content, "summary") # <<>>
    THEN Field(content, "summary")
    ELSE IF content.k = "string" THEN content.text
    ELSE Stringify(content)

\* TaskCompleteFrame keeping no raw_data
TaskCompleteFrame_NoRawData ==
    \E chunk \in Frames, t \in now..MaxClock :
        /\ chunk.type # "final_result"
        /\ chunk.is_task_complete /\ Truthy(chunk.content)
        /\ Consume(chunk, t)
        /\ LET content == CompleteContent(chunk.content)
               meta == Metadata("data", TRUE, FALSE, ErrorsAfter(chunk), Undefined)
           IN  /\ fullContent' = content
               /\ lastMetadata' = meta
               /\ PublishUpdate(chunk, content, meta, t)
        /\ UNCHANGED <<pc, processingMessages, thrown, exVars, sseVars, dbVars, stVars>>

\* chunk.is_task_complete === true && chunk.content
TaskCompleteFrame ==
    \E chunk \in Frames, t \in now..MaxClock :
        /\ chunk.type # "final_result"
        /\ chunk.is_task_complete /\ Truthy(chunk.content)
        /\ Consume(chunk, t)
        /\ LET content == CompleteContent(chunk.content)
               meta == Metadata("data", TRUE, FALSE, ErrorsAfter(chunk), chunk.content)
           IN  /\ fullContent' = content
               /\ lastMetadata' = meta
               /\ PublishUpdate(chunk, content, meta, t)
        /\ UNCHANGED <<pc, processingMessages, thrown, exVars, sseVars, dbVars, stVars>>

\* ProcessingFrame taking the fragment as the new fullContent
ProcessingFrame_Overwrites ==
    \E chunk \in Frames, t \in now..MaxClock :
        /\ chunk.type # "final_result"
        /\ ~chunk.is_task_complete /\ Truthy(chunk.content)
        /\ chunk.content.k = "string"
        /\ IsProcessingMessage(chunk.content.text)
        /\ Consume(chunk, t)
        /\ LET meta == Metadata("text", FALSE, chunk.require_user_input,
                                ErrorsAfter(chunk), Undefined)
           IN  /\ processingMessages' = Append(processingMessages, chunk.content.text)
               /\ fullContent' = chunk.content.text
               /\ lastMetadata' = meta
               /\ msg' = UpdateMessage(msg, Join(processingMessages', Newline), "streaming",
                             MessageMetadata(meta, NoArtifacts, NoParsed))
        /\ UNCHANGED <<pc, thrown, exVars, sseVars, dbVars, stVars>>

\* ProcessingFrame publishing fullContent instead of the joined processing
\* messages
ProcessingFrame_KeepsContent ==
    \E chunk \in Frames, t \in now..MaxClock :
        /\ chunk.type # "final_result"
        /\ ~chunk.is_task_complete /\ Truthy(chunk.content)
        /\ chunk.content.k = "string"
        /\ IsProcessingMessage(chunk.content.text)
        /\ Consume(chunk, t)
        /\ LET meta == Metadata("text", FALSE, chunk.require_user_input,
                                ErrorsAfter(chunk), Undefined)
           IN  /\ processingMessages' = Append(processingMessages, chunk.content.text)
               /\ lastMetadata' = meta
               /\ msg' = UpdateMessage(msg, fullContent, "streaming",
                             MessageMetadata(meta, NoArtifacts, NoParsed))
        /\ UNCHANGED <<pc, fullContent, thrown, exVars, sseVars, dbVars, stVars>>

\* chunk.content && chunk.is_task_complete !== true, isProcessingMessage
ProcessingFrame ==
    \E chunk \in Frames, t \in now..MaxClock :
        /\ chunk.type # "final_result"
        /\ ~chunk.is_task_complete /\ Truthy(chunk.content)
        /\ chunk.content.k = "string"
        /\ IsProcessingMessage(chunk.content.text)
        /\ Consume(chunk, t)
        /\ LET meta == Metadata("text", FALSE, chunk.require_user_input,
                                ErrorsAfter(chunk), Undefined)
           IN  /\ processingMessages' = Append(processingMessages, chunk.content.text)
               /\ lastMetadata' = meta
               /\ msg' = UpdateMessage(msg, Join(processingMessages', Newline), "streaming",
                             MessageMetadata(meta, NoArtifacts, NoParsed))
        /\ UNCHANGED <<pc, fullContent, thrown, exVars, sseVars, dbVars, stVars>>

\* ContentFrame appending the content to fullContent
ContentFrame_Appends ==
    \E chunk \in Frames, t \in now..MaxClock :
        /\ chunk.type # "final_result"
        /\ ~chunk.is_task_complete /\ Truthy(chunk.content)
        /\ chunk.content.k = "string"
        /\ ~IsProcessingMessage(chunk.content.text)
        /\ Consume(chunk, t)
        /\ LET content == fullContent \o chunk.content.text
               meta == Metadata("text", FALSE, chunk.require_user_input,
                                ErrorsAfter(chunk), Undefined)
           IN  /\ fullContent' = content
               /\ lastMetadata' = meta
               /\ PublishUpdate(chunk, content, meta, t)
        /\ UNCHANGED <<pc, processingMessages, thrown, exVars, sseVars, dbVars, stVars>>

\* chunk.content && chunk.is_task_complete !== true, not isProcessingMessage
ContentFrame ==
    \E chunk \in Frames, t \in now..MaxClock :
        /\ chunk.type # "final_result"
        /\ ~chunk.is_task_complete /\ Truthy(chunk.content)
        /\ chunk.content.k = "string"
        /\ ~IsProcessingMessage(chunk.content.text)
        /\ Consume(chunk, t)
        /\ LET content == chunk.content.text
               meta == Metadata("text", FALSE, chunk.require_user_input,
                                ErrorsAfter(chunk), Undefined)
           IN  /\ fullContent' = content
               /\ lastMetadata' = meta
               /\ PublishUpdate(chunk, content, meta, t)
        /\ UNCHANGED <<pc, processingMessages, thrown, exVars, sseVars, dbVars, stVars>>

\* EmptyFrame taking the empty content as the new fullContent
EmptyFrame_Resets ==
    \E chunk \in Frames, t \in now..MaxClock :
        /\ chunk.type # "final_result"
        /\ ~Truthy(chunk.content)
        /\ Consume(chunk, t)
        /\ fullContent' = <<>>
        /\ PublishUpdate(chunk, <<>>, lastMetadata, t)
        /\ UNCHANGED <<pc, lastMetadata, processingMessages, thrown, exVars, sseVars, dbVars, stVars>>

\* no branch taken: content is empty or absent and type is not final_result
EmptyFrame ==
    \E chunk \in Frames, t \in now..MaxClock :
        /\ chunk.type # "final_result"
        /\ ~Truthy(chunk.content)
        /\ Consume(chunk, t)
        /\ PublishUpdate(chunk, fullContent, lastMetadata, t)
        /\ UNCHANGED <<pc, fullContent, lastMetadata, processingMessages, thrown, exVars, sseVars, dbVars, stVars>>

\* Catch keeping the content of the Message
Catch_KeepsContent(message) ==
    /\ pc' = "failed"
    /\ thrown' = message
    /\ msg' = [msg EXCEPT !.status = "error"]

\* the catch block
Catch(message) ==
    /\ pc' = "failed"
    /\ thrown' = message
    /\ msg' = UpdateMessageContent(msg, FormatError(message), "error")

\* chunk.content && chunk.is_task_complete !== true with a content that is no
\* string: content.includes throws TypeError
ObjectContentFrame ==
    \E chunk \in Frames, t \in now..MaxClock :
        /\ chunk.type # "final_result"
        /\ ~chunk.is_task_complete /\ Truthy(chunk.content)
        /\ chunk.content.k # "string"
        /\ Consume(chunk, t)
        /\ Catch(IncludesTypeError)
        /\ UNCHANGED <<fullContent, lastMetadata, processingMessages, exVars, sseVars, dbVars, stVars>>

\* streamAgentQuery throws: before the first frame (HTTP status, no body) or
\* from reader.read()
SourceThrows ==
    \E message \in {HttpError, NoBodyError, ReadError} :
        /\ pc = "streaming"
        /\ message \in {HttpError, NoBodyError} => frames = 0
        /\ Catch(message)
        /\ UNCHANGED <<fullContent, lastMetadata, collectedErrors, processingMessages,
                       now, frames, lastFrame, prevGenuine, terminalSeen, pattern,
                       exVars, sseVars, dbVars, stVars>>

\* the frame source ends: the final update
SourceEnds ==
    \E t \in now..MaxClock :
        /\ pc = "streaming"
        /\ pc' = "done"
        /\ now' = t
        /\ msg' = UpdateMessage(msg, fullContent, "complete",
                      [MessageMetadata(lastMetadata,
                           [present |-> TRUE,
                            list |-> extractArtifacts(fullContent, lastMetadata.raw_data, t)],
                           parseAgentContent(fullContent))
                       EXCEPT !.errors = Len(collectedErrors) > 0])
        /\ UNCHANGED <<fullContent, lastMetadata, collectedErrors, processingMessages,
                       frames, lastFrame, prevGenuine, terminalSeen, pattern, thrown,
                       exVars, sseVars, dbVars, stVars>>

(***************************************************************************)
(* The classifier and the extractor on their own: the content is any       *)
(* concatenation of at most MaxPieces pieces of text, the clock advances   *)
(* between calls.                                                          *)
(***************************************************************************)
MaxPieces == 3

InputRequiredNoQuestion == <<LBrace, StatusIR, RBrace>>
OtherObjectText == <<LBrace, KeyA, Num, RBrace>>
FourPaths == <<PathTok, Newline, PathTok, Newline, PathTok, Newline, PathTok>>
\* four paths on lines of their own inside one fenced region
FencedPaths == <<Fence, Newline>> \o FourPaths \o <<Newline, Fence>>
\* four paths on one line, one space between them
SpacedPaths == <<PathTok, Space, PathTok, Space, PathTok, Space, PathTok>>

Pieces ==
    {<<Word>>, <<Space>>, <<Fence>>, <<Fence, JsonTag, Newline>>,
     InputRequiredText, InputRequiredNoQuestion, OtherObjectText,
     <<LBrace, KeyA>>, <<RBrace>>,
     <<LBrack>> \o InputRequiredText \o <<RBrack>>,
     FourPaths}

RECURSIVE Texts(_)
Texts(n) ==
    IF n = 0 THEN {<<>>}
    ELSE LET shorter == Texts(n - 1)
         IN  shorter \cup {t \o piece : t \in shorter, piece \in Pieces}

RawObjects == {SummaryObject, RepoObject, JSONParse(InputRequiredText)}

ExInit ==
    /\ \/ exContent \in Texts(MaxPieces) /\ exRaw = Undefined
       \/ /\ exContent \in {<<Num>>, <<Space, Num, Newline>>, FencedPaths, SpacedPaths}
          /\ exRaw = Undefined
       \/ /\ exContent \in {CodeText, InputRequiredText, OtherObjectText}
          /\ exRaw \in RawObjects \cup {JString(CodeText)}
    /\ exNow = 0
    /\ exParsed = [done |-> FALSE, result |-> NoParsed]
    /\ exRuns = <<>>
    /\ exRendered = [done |-> FALSE, result |-> [kind |-> "", text |-> <<>>]]

\* parseAgentContent(exContent)
Classify ==
    /\ ~exParsed.done
    /\ exParsed' = [done |-> TRUE, result |-> parseAgentContent(exContent)]
    /\ UNCHANGED <<exContent, exRaw, exNow, exRuns, exRendered, streamVars, sseVars, dbVars, stVars>>

\* extractArtifacts(exContent, {raw_data: exRaw}) at time exNow
Extract ==
    /\ exParsed.done
    /\ Len(exRuns) < 2
    /\ exRuns' = Append(exRuns, [at |-> exNow,
                                 artifacts |-> extractArtifacts(exContent, exRaw, exNow)])
    /\ UNCHANGED <<exContent, exRaw, exNow, exParsed, exRendered, streamVars, sseVars, dbVars, stVars>>

\* time passes
Tick ==
    /\ exParsed.done
    /\ exNow < MaxClock
    /\ exNow' = exNow + 1
    /\ UNCHANGED <<exContent, exRaw, exParsed, exRuns, exRendered, streamVars, sseVars, dbVars, stVars>>

\* formatMessageContent of the complete Message that holds exContent, the
\* result of parseAgentContent and the artifacts of the first extraction
Render ==
    /\ exParsed.done
    /\ Len(exRuns) >= 1
    /\ ~exRendered.done
    /\ exRendered' = [done |-> TRUE,
                      result |-> formatMessageContent(exContent, "complete", FALSE,
                                     exParsed.result, exRuns[1].artifacts)]
    /\ UNCHANGED <<exContent, exRaw, exNow, exParsed, exRuns, streamVars, sseVars, dbVars, stVars>>

ExNext == Classify \/ Extract \/ Tick \/ Render

InitExtract == StreamInit /\ ExInit /\ SseIdle /\ DbIdle /\ StoreIdle

SpecExtract == InitExtract /\ [][ExNext]_vars

(***************************************************************************)
(* streamAgentQuery: the async generator that reads the response body,     *)
(* splits it into lines and yields the parsed payload of every data line.  *)
(* The body is any concatenation of at most MaxLines lines, each ended by  *)
(* a line feed, and possibly one more line that is not; reader.read()      *)
(* hands it over in chunks of any size.                                    *)
(***************************************************************************)
MaxLines == 3

\* the field name and colon of a data line; a space follows
DataTag == "data:"

\* the body: lines that are a data line with payload {} or {"summary":"def"},
\* a data line with the malformed payload {, a blank line or another line
SseInit ==
    LET lineKinds == {<<DataTag, Space, LBrace, RBrace>>,
                      <<DataTag, Space, LBrace, SummaryS, RBrace>>,
                      <<DataTag, Space, LBrace>>, <<>>, <<Word>>}
        RECURSIVE bodies(_)
        bodies(n) ==
            IF n = 0 THEN {<<>>}
            ELSE LET shorter == bodies(n - 1)
                 IN  shorter \cup {b \o line \o <<Newline>> :
                                      b \in shorter, line \in lineKinds}
    IN  /\ ssePc = "fetch"
        /\ sseReader = "none"
        /\ sseInput \in {b \o tail : b \in bodies(MaxLines),
                                    tail \in {<<>>, <<DataTag, Space, LBrace, RBrace>>}}
        /\ sseRest = sseInput
        /\ sseBuffer = <<>>
        /\ sseLines = <<>>
        /\ sseYielded = <<>>
        /\ sseThrown = <<>>

\* s.split('\n')
RECURSIVE SplitLines(_, _, _)
SplitLines(s, from, i) ==
    IF i > Len(s) THEN <<SubSeq(s, from, Len(s))>>
    ELSE IF s[i] = Newline
         THEN <<SubSeq(s, from, i - 1)>> \o SplitLines(s, i + 1, i + 1)
         ELSE SplitLines(s, from, i + 1)

\* fetch resolves with a body (the reader is acquired), with a status that
\* is not ok or without body, or it rejects
FetchResponds ==
    /\ ssePc = "fetch"
    /\ \/ /\ ssePc' = "read"
          /\ sseReader' = "held"
          /\ UNCHANGED sseThrown
       \/ /\ ssePc' = "threw"
          /\ sseThrown' \in {HttpError, NoBodyError, ReadError}
          /\ UNCHANGED sseReader
    /\ UNCHANGED <<sseInput, sseRest, sseBuffer, sseLines, sseYielded, streamVars, exVars, dbVars, stVars>>

\* Finally releasing the reader only after the loop
Finally_AfterLoop(exit) ==
    /\ ssePc' = exit
    /\ sseReader' = IF exit = "done" THEN "released" ELSE sseReader

\* the finally block, on the way out of the generator
Finally(exit) ==
    /\ ssePc' = exit
    /\ sseReader' = "released"

\* reader.read() resolves with a chunk: it is appended to the buffer, the
\* complete lines are taken out
ReadChunk ==
    \E n \in 1..Len(sseRest) :
        /\ ssePc = "read"
        /\ LET lines == SplitLines(sseBuffer \o SubSeq(sseRest, 1, n), 1, 1)
           IN  /\ sseLines' = SubSeq(lines, 1, Len(lines) - 1)
               /\ sseBuffer' = lines[Len(lines)]
        /\ sseRest' = SubSeq(sseRest, n + 1, Len(sseRest))
        /\ ssePc' = "lines"
        /\ UNCHANGED <<sseReader, sseInput, sseYielded, sseThrown, streamVars, exVars, dbVars, stVars>>

\* reader.read() resolves with done: break
ReadDone ==
    /\ ssePc = "read"
    /\ sseRest = <<>>
    /\ Finally("done")
    /\ UNCHANGED <<sseInput, sseRest, sseBuffer, sseLines, sseYielded, sseThrown,
                   streamVars, exVars, dbVars, stVars>>

\* reader.read() rejects
ReadFails ==
    /\ ssePc = "read"
    /\ sseThrown' = ReadError
    /\ Finally("threw")
    /\ UNCHANGED <<sseInput, sseRest, sseBuffer, sseLines, sseYielded, streamVars, exVars, dbVars, stVars>>

\* what the loop body makes of a line: Undefined for a line that is blank
\* or does not start with "data: ", else JSON.parse(line.slice(6)), which is
\* Invalid when it throws
DataPayload(line) ==
    IF Trim(line) = <<>> \/ ~StartsWith(line, <<DataTag, Space>>) THEN Undefined
    ELSE JSONParse(SubSeq(line, 3, Len(line)))

\* a line that is blank, or does not start with "data: ", is passed over
SkipLine ==
    /\ ssePc = "lines"
    /\ sseLines # <<>>
    /\ DataPayload(Head(sseLines)) = Undefined
    /\ sseLines' = Tail(sseLines)
    /\ UNCHANGED <<ssePc, sseReader, sseInput, sseRest, sseBuffer, sseYielded, sseThrown,
                   streamVars, exVars, dbVars, stVars>>

\* DropMalformed letting the SyntaxError escape
DropMalformed_Throws ==
    /\ ssePc = "lines"
    /\ sseLines # <<>>
    /\ DataPayload(Head(sseLines)) = Invalid
    /\ sseThrown' = <<"Unexpected end of JSON input">>
    /\ Finally("threw")
    /\ UNCHANGED <<sseInput, sseRest, sseBuffer, sseLines, sseYielded, streamVars, exVars, dbVars, stVars>>

\* JSON.parse throws: the error is logged, the loop goes on
DropMalformed ==
    /\ ssePc = "lines"
    /\ sseLines # <<>>
    /\ DataPayload(Head(sseLines)) = Invalid
    /\ sseLines' = Tail(sseLines)
    /\ UNCHANGED <<ssePc, sseReader, sseInput, sseRest, sseBuffer, sseYielded, sseThrown,
                   streamVars, exVars, dbVars, stVars>>

\* yield chunk
YieldFrame ==
    /\ ssePc = "lines"
    /\ sseLines # <<>>
    /\ DataPayload(Head(sseLines)) \notin {Undefined, Invalid}
    /\ sseYielded' = Append(sseYielded, DataPayload(Head(sseLines)))
    /\ sseLines' = Tail(sseLines)
    /\ ssePc' = "yielded"
    /\ UNCHANGED <<sseReader, sseInput, sseRest, sseBuffer, sseThrown, streamVars, exVars, dbVars, stVars>>

\* the loop over the lines ends: back to reader.read()
LinesDone ==
    /\ ssePc = "lines"
    /\ sseLines = <<>>
    /\ ssePc' = "read"
    /\ UNCHANGED <<sseReader, sseInput, sseRest, sseBuffer, sseLines, sseYielded, sseThrown,
                   streamVars, exVars, dbVars, stVars>>

\* the consumer asks for the next chunk: the generator resumes after yield
ConsumerNext ==
    /\ ssePc = "yielded"
    /\ ssePc' = "lines"
    /\ UNCHANGED <<sseReader, sseInput, sseRest, sseBuffer, sseLines, sseYielded, sseThrown,
                   streamVars, exVars, dbVars, stVars>>

\* the consumer leaves its for-await loop (break, or an exception in the loop
\* body): the generator is ended at the yield by return()
ConsumerReturn ==
    /\ ssePc = "yielded"
    /\ Finally("returned")
    /\ UNCHANGED <<sseInput, sseRest, sseBuffer, sseLines, sseYielded, sseThrown,
                   streamVars, exVars, dbVars, stVars>>

SseNext ==
    \/ FetchResponds
    \/ ReadChunk
    \/ ReadDone
    \/ ReadFails
    \/ SkipLine
    \/ DropMalformed
    \/ YieldFrame
    \/ LinesDone
    \/ ConsumerNext
    \/ ConsumerReturn

InitSse == StreamInit /\ ExIdle /\ SseInit /\ DbIdle /\ StoreIdle

SpecSse == InitSse /\ [][SseNext]_vars

(***************************************************************************)
(* The embedding retrieval engine behind the tools vector_search_code and  *)
(* search_code_by_file_path, and the regeneration of the embeddings of a   *)
(* session.  A file path or LIKE pattern is the sequence of the character  *)
(* codes of its text; a similarity is given in hundredths.  The engine     *)
(* is called with one query text; the similarity of a row is the cosine    *)
(* similarity of its vector to the vector of that query.                   *)
(***************************************************************************)
MaxChunks == 2
MaxGenerations == 1

\* limit: default 10, max 50; similarity_threshold: 0-1, default 0.7
DefaultLimit == 10
MaxLimit == 50
DefaultThreshold == 70
MaxThreshold == 100

\* a session id: the lengths of the groups of hexadecimal digits between its
\* hyphens, and the number that tells it from the others
SessionId(n) == [n |-> n, groups |-> <<8, 4, 4, 4, 12>>]
\* your-session-uuid
MalformedSessionId == [n |-> 0, groups |-> <<4, 7, 4>>]
\* session_id not given
NoSessionId == [n |-> 0, groups |-> <<>>]

IsUuid(id) == id.groups = <<8, 4, 4, 4, 12>>

Chunk(session, generation, k, path, index, similarity, created) ==
    [id |-> <<session, generation, k>>, session_id |-> SessionId(session),
     file_path |-> path, chunk_index |-> index,
     similarity |-> similarity, created_at |-> created]

\* the rows a corpus is drawn from: in session 1 a.py (two chunks), b.PY and
\* s/c.py, in session 2 a.py and d.md
StoredChunks ==
    {Chunk(1, 0, 1, <<97, 46, 112, 121>>, 0, 90, 1),
     Chunk(1, 0, 2, <<97, 46, 112, 121>>, 1, 70, 3),
     Chunk(1, 0, 3, <<98, 46, 80, 89>>, 0, 70, 2),
     Chunk(1, 0, 4, <<115, 47, 99, 46, 112, 121>>, 0, 40, 4),
     Chunk(2, 0, 1, <<97, 46, 112, 121>>, 0, 100, 5),
     Chunk(2, 0, 2, <<100, 46, 109, 100>>, 0, 0 - 20, 6)}

\* {"error": "<message>"}
ErrorEnvelope(message) == [error |-> message]

\* the rows of S in ascending order of their keys; a key is a sequence of
\* sequences of numbers, compared component by component, each component
\* as a word of numbers
RECURSIVE SortRows(_, _)
SortRows(S, key) ==
    LET RECURSIVE wordLess(_, _)
        wordLess(a, b) ==
            IF b = <<>> THEN FALSE
            ELSE IF a = <<>> THEN TRUE
            ELSE IF Head(a) # Head(b) THEN Head(a) < Head(b)
            ELSE wordLess(Tail(a), Tail(b))
        RECURSIVE keyLess(_, _)
        keyLess(a, b) ==
            IF a = <<>> \/ b = <<>> THEN FALSE
            ELSE IF Head(a) # Head(b) THEN wordLess(Head(a), Head(b))
            ELSE keyLess(Tail(a), Tail(b))
    IN  IF S = {} THEN <<>>
        ELSE LET first == CHOOSE r \in S : \A o \in S \ {r} : keyLess(key[r], key[o])
             IN  <<first>> \o SortRows(S \ {first}, key)

\* search keeping only the rows above the threshold
search_StrictThreshold(session_id, limit, threshold) ==
    IF session_id # NoSessionId /\ ~IsUuid(session_id)
    THEN ErrorEnvelope(<<"Invalid session_id format. Must be a valid UUID.">>)
    ELSE IF limit < 1 \/ limit > MaxLimit
    THEN ErrorEnvelope(<<"limit must be between 1 and 50">>)
    ELSE IF threshold < 0 \/ threshold > MaxThreshold
    THEN ErrorEnvelope(<<"similarity_threshold must be between 0 and 1">>)
    ELSE LET kept == {r \in dbRows :
                         /\ session_id = NoSessionId \/ r.session_id = session_id
                         /\ r.similarity > threshold}
             sorted == SortRows(kept, [r \in kept |->
                           <<<<0 - r.similarity>>, <<r.created_at>>, r.id>>])
             results == SubSeq(sorted, 1,
                            IF Len(sorted) < limit THEN Len(sorted) ELSE limit)
         IN  [total_results |-> Len(results), results |-> results]

\* search clamping limit into its range
search_Clamps(session_id, limit, threshold) ==
    IF session_id # NoSessionId /\ ~IsUuid(session_id)
    THEN ErrorEnvelope(<<"Invalid session_id format. Must be a valid UUID.">>)
    ELSE IF threshold < 0 \/ threshold > MaxThreshold
    THEN ErrorEnvelope(<<"similarity_threshold must be between 0 and 1">>)
    ELSE LET k == IF limit < 1 THEN 1 ELSE IF limit > MaxLimit THEN MaxLimit ELSE limit
             kept == {r \in dbRows :
                         /\ session_id = NoSessionId \/ r.session_id = session_id
                         /\ r.similarity >= threshold}
             sorted == SortRows(kept, [r \in kept |->
                           <<<<0 - r.similarity>>, <<r.created_at>>, r.id>>])
             results == SubSeq(sorted, 1, IF Len(sorted) < k THEN Len(sorted) ELSE k)
         IN  [total_results |-> Len(results), results |-> results]

\* search(query_text, session_id?, limit, similarity_threshold): the rows of
\* the session (of all sessions without session_id) whose similarity is at
\* least the threshold, by descending similarity, ties by ascending
\* created_at, cut to limit
search(session_id, limit, threshold) ==
    IF session_id # NoSessionId /\ ~IsUuid(session_id)
    THEN ErrorEnvelope(<<"Invalid session_id format. Must be a valid UUID.">>)
    ELSE IF limit < 1 \/ limit > MaxLimit
    THEN ErrorEnvelope(<<"limit must be between 1 and 50">>)
    ELSE IF threshold < 0 \/ threshold > MaxThreshold
    THEN ErrorEnvelope(<<"similarity_threshold must be between 0 and 1">>)
    ELSE LET kept == {r \in dbRows :
                         /\ session_id = NoSessionId \/ r.session_id = session_id
                         /\ r.similarity >= threshold}
             sorted == SortRows(kept, [r \in kept |->
                           <<<<0 - r.similarity>>, <<r.created_at>>, r.id>>])
             results == SubSeq(sorted, 1,
                            IF Len(sorted) < limit THEN Len(sorted) ELSE limit)
         IN  [total_results |-> Len(results), results |-> results]

\* file_path LIKE pattern: % (37) stands for any text, _ (95) for any one
\* character, every other character for itself
RECURSIVE Like(_, _)
Like(path, pat) ==
    IF pat = <<>> THEN path = <<>>
    ELSE IF Head(pat) = 37
         THEN Like(path, Tail(pat)) \/ (path # <<>> /\ Like(Tail(path), pat))
    ELSE IF path = <<>> THEN FALSE
    ELSE (Head(pat) = 95 \/ Head(pat) = Head(path)) /\ Like(Tail(path), Tail(pat))

\* searchByPath without the restriction to the session
searchByPath_AllSessions(pat, session_id) ==
    IF session_id # NoSessionId /\ ~IsUuid(session_id)
    THEN ErrorEnvelope(<<"Invalid session_id format. Must be a valid UUID.">>)
    ELSE LET kept == {r \in dbRows : Like(r.file_path, pat)}
             results == SortRows(kept, [r \in kept |->
                            <<r.file_path, <<r.chunk_index>>, r.id>>])
         IN  [total_results |-> Len(results), results |-> results]

\* searchByPath(pattern, session_id?): the rows of the session whose
\* file_path matches, ordered by (file_path, chunk_index)
searchByPath(pat, session_id) ==
    IF session_id # NoSessionId /\ ~IsUuid(session_id)
    THEN ErrorEnvelope(<<"Invalid session_id format. Must be a valid UUID.">>)
    ELSE LET kept == {r \in dbRows :
                         /\ session_id = NoSessionId \/ r.session_id = session_id
                         /\ Like(r.file_path, pat)}
             results == SortRows(kept, [r \in kept |->
                            <<r.file_path, <<r.chunk_index>>, r.id>>])
         IN  [total_results |-> Len(results), results |-> results]

\* the tool vector_search_code is called
VectorSearchCode ==
    \E session_id \in {NoSessionId, SessionId(1), SessionId(2), MalformedSessionId},
       limit \in {0, 1, 2, DefaultLimit, MaxLimit, MaxLimit + 1},
       threshold \in {0 - 1, 0, DefaultThreshold, MaxThreshold, MaxThreshold + 1} :
        /\ dbCall' = [tool |-> "vector_search_code", session_id |-> session_id,
                      limit |-> limit, similarity_threshold |-> threshold,
                      response |-> search(session_id, limit, threshold)]
        /\ UNCHANGED <<dbRows, dbRegen, streamVars, exVars, sseVars, stVars>>

\* the tool search_code_by_file_path is called, with the pattern %, %.py,
\* s/%, _.py or a.py
SearchCodeByFilePath ==
    \E session_id \in {NoSessionId, SessionId(1), SessionId(2), MalformedSessionId},
       pat \in {<<37>>, <<37, 46, 112, 121>>, <<115, 47, 37>>,
                <<95, 46, 112, 121>>, <<97, 46, 112, 121>>} :
        /\ dbCall' = [tool |-> "search_code_by_file_path", session_id |-> session_id,
                      file_path_pattern |-> pat,
                      response |-> searchByPath(pat, session_id)]
        /\ UNCHANGED <<dbRows, dbRegen, streamVars, exVars, sseVars, stVars>>

\* regenerateEmbeddings(sessionId): the regeneration of session 1 starts
RegenerateEmbeddings ==
    /\ dbRegen.session = 0
    /\ dbRegen.generation < MaxGenerations
    /\ dbRegen' = [dbRegen EXCEPT !.session = 1]
    /\ UNCHANGED <<dbRows, dbCall, streamVars, exVars, sseVars, stVars>>

\* the regeneration writes one chunk of the next generation; no search sees
\* it yet
StageChunk ==
    LET k == Cardinality(dbRegen.staged) + 1
    IN  /\ dbRegen.session # 0
        /\ k <= MaxChunks
        /\ dbRegen' = [dbRegen EXCEPT !.staged = @ \cup
               {Chunk(dbRegen.session, dbRegen.generation + 1, k,
                      <<97, 46, 112, 121>>, k - 1, 80, 6 + k)}]
        /\ UNCHANGED <<dbRows, dbCall, streamVars, exVars, sseVars, stVars>>

\* SwapGeneration keeping the rows of the old generation
SwapGeneration_KeepsOld ==
    /\ dbRegen.session # 0
    /\ dbRows' = dbRows \cup dbRegen.staged
    /\ dbRegen' = [session |-> 0, generation |-> dbRegen.generation + 1, staged |-> {}]
    /\ UNCHANGED <<dbCall, streamVars, exVars, sseVars, stVars>>

\* the regeneration ends: the chunk set of the session is replaced by the new
\* generation in one step
SwapGeneration ==
    /\ dbRegen.session # 0
    /\ dbRows' = {r \in dbRows : r.id[1] # dbRegen.session} \cup dbRegen.staged
    /\ dbRegen' = [session |-> 0, generation |-> dbRegen.generation + 1, staged |-> {}]
    /\ UNCHANGED <<dbCall, streamVars, exVars, sseVars, stVars>>

\* the tools on a corpus at rest
DbNext ==
    \/ VectorSearchCode
    \/ SearchCodeByFilePath

InitDb ==
    /\ StreamInit /\ ExIdle /\ SseIdle /\ StoreIdle
    /\ dbRows \in SUBSET StoredChunks
    /\ dbRegen = [session |-> 0, generation |-> 0, staged |-> {}]
    /\ dbCall = [tool |-> "none"]

SpecDb == InitDb /\ [][DbNext]_vars

\* searches while session 1 of the full corpus is regenerated
RegenNext ==
    \/ VectorSearchCode
    \/ RegenerateEmbeddings
    \/ StageChunk
    \/ SwapGeneration

InitRegen ==
    /\ StreamInit /\ ExIdle /\ SseIdle /\ StoreIdle
    /\ dbRows = StoredChunks
    /\ dbRegen = [session |-> 0, generation |-> 0, staged |-> {}]
    /\ dbCall = [tool |-> "none"]

SpecRegen == InitRegen /\ [][RegenNext]_vars

(***************************************************************************)
(* Message store of AgentService and the submit path of handleSearch       *)
(***************************************************************************)
\* A Message of the store.  `msg_${n}` is modelled by n.  The field owner is
\* not a field of the code: it names the invocation of handleSearch that
\* created the Message.
Message(id, type, content, status, owner) ==
    [id |-> id, type |-> type, content |-> content, status |-> status,
     owner |-> owner]

\* this.messagesCache.get(sessionId) || []
getSessionMessages(sessionId) == messagesCache[sessionId]

\* messages.push(message); this.messagesCache.set(sessionId, messages)
addMessageToSession(cache, sessionId, message) ==
    [cache EXCEPT ![sessionId] = Append(@, message)]

\* updateMessageInSession adding the Message when no Message has the id
updateMessageInSession_Upserts(cache, sessionId, messageId, content, status) ==
    LET messages == cache[sessionId]
        found == {i \in 1..Len(messages) : messages[i].id = messageId}
    IN IF found = {}
       THEN [cache EXCEPT ![sessionId] =
                Append(@, Message(messageId, "agent", content, status, 0))]
       ELSE LET messageIndex == CHOOSE i \in found : \A j \in found : i <= j
            IN [cache EXCEPT ![sessionId][messageIndex] =
                    [@ EXCEPT !.content = content, !.status = status]]

\* messages.findIndex(m => m.id === messageId), then the spread of updates
\* over the Message found; nothing when no Message has the id
updateMessageInSession(cache, sessionId, messageId, content, status) ==
    LET messages == cache[sessionId]
        found == {i \in 1..Len(messages) : messages[i].id = messageId}
    IN IF found = {} THEN cache
       ELSE LET messageIndex == CHOOSE i \in found : \A j \in found : i <= j
            IN [cache EXCEPT ![sessionId][messageIndex] =
                    [@ EXCEPT !.content = content, !.status = status]]

\* prev.map(msg => msg.id === agentMessageId ? { ...msg, ...update } : msg)
MapMessages(prev, messageId, content, status) ==
    [i \in 1..Len(prev) |->
        IF prev[i].id = messageId
        THEN [prev[i] EXCEPT !.content = content, !.status = status]
        ELSE prev[i]]

\* agentService.createSession resolved: sessionsCache.unshift, activeSessionId,
\* then setCurrentSession(session), setCurrentSessionMessages([])
SessionCreated ==
    /\ serverSessions < MaxSessions
    /\ serverSessions' = serverSessions + 1
    /\ sessionsCache' = <<serverSessions + 1>> \o sessionsCache
    /\ activeSessionId' = serverSessions + 1
    /\ currentSession' = serverSessions + 1
    /\ currentSessionMessages' = <<>>

handleCreateSession ==
    /\ SessionCreated
    /\ UNCHANGED <<messagesCache, isSearching, clock, tasks,
                   streamVars, exVars, sseVars, dbVars>>

\* handleSearch accepting a query of white space only
handleSearch_NoTrim(q, query) ==
    /\ tasks[q].pc = "idle"
    /\ currentSession # NoSession
    /\ LET userMessage == Message(clock, "user", query, "complete", q)
           agentMessage == Message(clock + 1, "agent", <<>>, "streaming", q)
       IN /\ messagesCache' =
                 addMessageToSession(
                     addMessageToSession(messagesCache, currentSession, userMessage),
                     currentSession, agentMessage)
          /\ currentSessionMessages' =
                 currentSessionMessages \o <<userMessage, agentMessage>>
          /\ isSearching' = TRUE
          /\ tasks' = [tasks EXCEPT ![q] =
                 [pc |-> "streaming", session |-> currentSession,
                  query |-> query, agentMessageId |-> clock + 1,
                       missed |-> FALSE]]
    /\ UNCHANGED <<sessionsCache, activeSessionId, currentSession, clock,
                   serverSessions, streamVars, exVars, sseVars, dbVars>>

\* handleSearch up to the start of the stream; the invocations are numbered
\* in the order they are made.  An invocation that returns early ends at
\* "returned".  currentSession is the value of the render the
\* handler was created in, so it is still null after handleCreateQuickSession.
handleSearch(q, query) ==
    /\ tasks[q].pc = "idle"
    /\ \A r \in 1..(q - 1) : tasks[r].pc # "idle"
    /\ IF Trim(query) = <<>>
       THEN /\ tasks' = [tasks EXCEPT ![q].pc = "returned", ![q].query = query]
            /\ UNCHANGED <<sessionsCache, activeSessionId, messagesCache,
                           currentSession, currentSessionMessages, isSearching,
                           serverSessions>>
       ELSE IF currentSession = NoSession
       THEN /\ tasks' = [tasks EXCEPT ![q].pc = "returned", ![q].query = query]
            /\ \/ SessionCreated
               \/ UNCHANGED <<sessionsCache, activeSessionId, currentSession,
                              currentSessionMessages, serverSessions>>
            /\ UNCHANGED <<messagesCache, isSearching>>
       ELSE LET userMessage == Message(clock, "user", query, "complete", q)
                agentMessage == Message(clock + 1, "agent", <<>>, "streaming", q)
            IN /\ messagesCache' =
                      addMessageToSession(
                          addMessageToSession(messagesCache, currentSession,
                                              userMessage),
                          currentSession, agentMessage)
               /\ currentSessionMessages' =
                      currentSessionMessages \o <<userMessage, agentMessage>>
               /\ isSearching' = TRUE
               /\ tasks' = [tasks EXCEPT ![q] =
                      [pc |-> "streaming", session |-> currentSession,
                       query |-> query, agentMessageId |-> clock + 1,
                       missed |-> FALSE]]
               /\ UNCHANGED <<sessionsCache, activeSessionId, currentSession,
                              serverSessions>>
    /\ UNCHANGED <<clock, streamVars, exVars, sseVars, dbVars>>

\* updateMessageInSession finds no Message with the id of the placeholder of
\* invocation q
Missed(q) ==
    \A i \in 1..Len(messagesCache[tasks[q].session]) :
        messagesCache[tasks[q].session][i].id # tasks[q].agentMessageId

\* the update of one frame: updateMessageInSession and the map over the
\* messages shown
Publish(q, content, status) ==
    /\ messagesCache' = updateMessageInSession(messagesCache, tasks[q].session,
                            tasks[q].agentMessageId, content, status)
    /\ currentSessionMessages' = MapMessages(currentSessionMessages,
                            tasks[q].agentMessageId, content, status)

StreamUpdate(q) ==
    /\ tasks[q].pc = "streaming"
    /\ Publish(q, <<Word>>, "streaming")
    /\ tasks' = [tasks EXCEPT ![q].missed = @ \/ Missed(q)]
    /\ UNCHANGED <<sessionsCache, activeSessionId, currentSession, isSearching,
                   clock, serverSessions, streamVars, exVars, sseVars, dbVars>>

\* the final update after the loop, then finally setIsSearching(false)
StreamFinish(q) ==
    /\ tasks[q].pc = "streaming"
    /\ Publish(q, <<Word>>, "complete")
    /\ isSearching' = FALSE
    /\ tasks' = [tasks EXCEPT ![q].pc = "done", ![q].missed = @ \/ Missed(q)]
    /\ UNCHANGED <<sessionsCache, activeSessionId, currentSession, clock,
                   serverSessions, streamVars, exVars, sseVars, dbVars>>

\* the catch block, then finally setIsSearching(false)
StreamCatch(q) ==
    /\ tasks[q].pc = "streaming"
    /\ Publish(q, FormatError(ReadError), "error")
    /\ isSearching' = FALSE
    /\ tasks' = [tasks EXCEPT ![q].pc = "done", ![q].missed = @ \/ Missed(q)]
    /\ UNCHANGED <<sessionsCache, activeSessionId, currentSession, clock,
                   serverSessions, streamVars, exVars, sseVars, dbVars>>

\* deleteSession leaving activeSessionId as it is
deleteSession_KeepsActive(sessionId) ==
    /\ \E i \in 1..Len(sessionsCache) : sessionsCache[i] = sessionId
    /\ sessionsCache' = SelectSeq(sessionsCache, LAMBDA s : s # sessionId)
    /\ UNCHANGED <<activeSessionId, messagesCache, currentSession,
                   currentSessionMessages, isSearching, clock, serverSessions,
                   tasks, streamVars, exVars, sseVars, dbVars>>

\* AgentService.deleteSession with the DELETE request answered; a failed
\* request is logged and changes nothing
deleteSession(sessionId) ==
    /\ \E i \in 1..Len(sessionsCache) : sessionsCache[i] = sessionId
    /\ LET kept == SelectSeq(sessionsCache, LAMBDA s : s # sessionId)
       IN /\ sessionsCache' = kept
          /\ activeSessionId' =
                 IF activeSessionId = sessionId
                 THEN IF Len(kept) > 0 THEN kept[1] ELSE NoSession
                 ELSE activeSessionId
    /\ UNCHANGED <<messagesCache, currentSession, currentSessionMessages,
                   isSearching, clock, serverSessions, tasks,
                   streamVars, exVars, sseVars, dbVars>>

\* the sessionChanged event without a session id
handleSessionChange ==
    /\ currentSession # NoSession
    /\ currentSession' = NoSession
    /\ currentSessionMessages' = <<>>
    /\ UNCHANGED <<sessionsCache, activeSessionId, messagesCache, isSearching,
                   clock, serverSessions, tasks, streamVars, exVars, sseVars, dbVars>>

\* clearAgentContext resolved, then clearSessionMessages; a rejected request is
\* logged and changes nothing
handleClearConversation ==
    /\ currentSession # NoSession
    /\ messagesCache' = [messagesCache EXCEPT ![currentSession] = <<>>]
    /\ currentSessionMessages' = <<>>
    /\ UNCHANGED <<sessionsCache, activeSessionId, currentSession, isSearching,
                   clock, serverSessions, tasks, streamVars, exVars, sseVars, dbVars>>

\* a millisecond passes
ClockTick ==
    /\ clock < MaxClock
    /\ clock' = clock + 1
    /\ UNCHANGED <<sessionsCache, activeSessionId, messagesCache, currentSession,
                   currentSessionMessages, isSearching, serverSessions, tasks,
                   streamVars, exVars, sseVars, dbVars>>

StoreNext ==
    \/ handleCreateSession
    \/ \E q \in 1..MaxQueries : \E query \in {<<>>, <<Space>>, <<Word>>} :
           handleSearch(q, query)
    \/ \E q \in 1..MaxQueries : StreamUpdate(q)
    \/ \E q \in 1..MaxQueries : StreamFinish(q)
    \/ \E q \in 1..MaxQueries : StreamCatch(q)
    \/ \E sessionId \in 1..MaxSessions : deleteSession(sessionId)
    \/ handleSessionChange
    \/ handleClearConversation
    \/ ClockTick

InitStore == StreamInit /\ ExIdle /\ SseIdle /\ DbIdle /\ StoreIdle

SpecStore == InitStore /\ [][StoreNext]_vars

(***************************************************************************)
(* The session cache of AgentService and its active session, under any     *)
(* sequence of calls of createSession, setActiveSession,                   *)
(* clearActiveSession and deleteSession.  The backend numbers the          *)
(* sessions it creates; at most MaxCreated sessions are created.           *)
(***************************************************************************)
MaxCreated == 4

\* AgentService.createSession with the POST request answered:
\* sessionsCache.unshift(formattedSession), activeSessionId = session.id
createSession ==
    /\ serverSessions < MaxCreated
    /\ serverSessions' = serverSessions + 1
    /\ sessionsCache' = <<serverSessions + 1>> \o sessionsCache
    /\ activeSessionId' = serverSessions + 1
    /\ UNCHANGED <<messagesCache, currentSession, currentSessionMessages,
                   isSearching, clock, tasks, streamVars, exVars, sseVars, dbVars>>

\* this.activeSessionId = sessionId, for any id
setActiveSession(sessionId) ==
    /\ activeSessionId' = sessionId
    /\ UNCHANGED <<sessionsCache, messagesCache, currentSession,
                   currentSessionMessages, isSearching, clock, serverSessions,
                   tasks, streamVars, exVars, sseVars, dbVars>>

\* this.activeSessionId = null
clearActiveSession ==
    /\ activeSessionId' = NoSession
    /\ UNCHANGED <<sessionsCache, messagesCache, currentSession,
                   currentSessionMessages, isSearching, clock, serverSessions,
                   tasks, streamVars, exVars, sseVars, dbVars>>

\* AgentService.deleteSession with the DELETE request rejected: the catch
\* block logs the error
deleteSessionFails(sessionId) ==
    /\ \E i \in 1..Len(sessionsCache) : sessionsCache[i] = sessionId
    /\ UNCHANGED vars

\* getActiveSession, NoSession for null: the session of the cache that has the
\* id activeSessionId
getActiveSession ==
    IF activeSessionId = NoSession THEN NoSession
    ELSE IF \E i \in 1..Len(sessionsCache) : sessionsCache[i] = activeSessionId
         THEN activeSessionId
         ELSE NoSession

SessionsNext ==
    \/ createSession
    \/ \E sessionId \in 1..MaxCreated : setActiveSession(sessionId)
    \/ clearActiveSession
    \/ \E sessionId \in 1..MaxCreated : deleteSession(sessionId)
    \/ \E sessionId \in 1..MaxCreated : deleteSessionFails(sessionId)

SpecSessions == InitStore /\ [][SessionsNext]_vars

Next ==
    \/ FinalResultFrame
    \/ TaskCompleteFrame
    \/ ProcessingFrame
    \/ ContentFrame
    \/ EmptyFrame
    \/ ObjectContentFrame
    \/ SourceThrows
    \/ SourceEnds

Spec == Init /\ [][Next]_vars
(***************************************************************************)
(* Views of the published Message                                          *)
(***************************************************************************)
\* msg.metadata.processing_messages: a reference to processingMessages, or
\* undefined
MsgProcessingMessages ==
    IF msg.metadata.processing_messages
    THEN [present |-> TRUE, list |-> processingMessages]
    ELSE [present |-> FALSE, list |-> <<>>]

\* a frame has just been consumed
FrameStep == frames' = frames + 1

(***************************************************************************)
(* Properties of the stream assembler                                      *)
(***************************************************************************)
\* C1: once a terminal frame has been applied, every later frame is dropped:
\* content, status, processing_messages of the Message and the collected
\* errors stay as they were.
C1_LaterFramesDropped ==
    [][(terminalSeen /\ FrameStep) =>
          /\ msg'.content = msg.content
          /\ msg'.status = msg.status
          /\ MsgProcessingMessages' = MsgProcessingMessages
          /\ collectedErrors' = collectedErrors]_vars

\* C2: a Message whose status is complete or error keeps that status.
C2_TerminalStatusStable ==
    [][msg.status \in {"complete", "error"} => msg'.status = msg.status]_vars

\* C3: after n >= 0 processing fragments p1..pn and one terminal frame
\* (is_task_complete) with string content c, the final Message has content c,
\* status complete and processing_messages [p1..pn] in arrival order.
C3_ProcessingThenTerminal ==
    (pc = "done" /\ pattern.shape = "terminated") =>
        /\ msg.content = pattern.c
        /\ msg.status = "complete"
        /\ MsgProcessingMessages = [present |-> TRUE, list |-> pattern.procs]

\* C3 witness: two different processing fragments, then a terminal frame whose
\* content carries progress vocabulary, then the end of the stream
C3_Witness ==
    /\ pc = "done" /\ pattern.shape = "terminated"
    /\ pattern.procs = <<TaskListText, ProcessingText>>
    /\ pattern.c = ProcessingText

\* C4 as claimed: a frame with empty or absent content never changes
\* fullContent or processingMessages, whatever its other fields are.
C4_EmptyFrameNoEffect_Original ==
    [][(FrameStep /\ ~Truthy(lastFrame'.content)) =>
          /\ fullContent' = fullContent
          /\ processingMessages' = processingMessages]_vars

\* C4 amended: a frame with empty or absent content whose type is not
\* final_result never changes fullContent or processingMessages; all it can
\* do to the accumulators is append one entry to collectedErrors.
C4_EmptyFrameNoEffect ==
    [][(FrameStep /\ ~Truthy(lastFrame'.content) /\ lastFrame'.type # "final_result") =>
          /\ fullContent' = fullContent
          /\ processingMessages' = processingMessages
          /\ \/ collectedErrors' = collectedErrors
             \/ /\ Len(collectedErrors') = Len(collectedErrors) + 1
                /\ SubSeq(collectedErrors', 1, Len(collectedErrors)) = collectedErrors]_vars

\* C4 witness: an empty-content frame with is_task_complete and an error has
\* been consumed after content and a processing fragment were accumulated
C4_Witness ==
    /\ frames >= 3
    /\ ~Truthy(lastFrame.content) /\ lastFrame.type # "final_result"
    /\ lastFrame.is_task_complete /\ Truthy(lastFrame.error)
    /\ fullContent = CodeText
    /\ processingMessages = <<ProcessingText>>

\* C5: a frame carrying an error is not fatal: its message is appended to
\* collectedErrors, its other fields are processed as usual, the loop goes on
\* and the Message does not get status error.
C5_ErrorFrameNonFatal ==
    [][(FrameStep /\ Truthy(lastFrame'.error)) =>
          LET chunk == lastFrame'
              text == IF chunk.content.k = "string" THEN chunk.content.text ELSE <<>>
          IN  /\ collectedErrors' = Append(collectedErrors, <<"\"", "upstream failed", "\"">>)
              /\ pc' = "streaming"
              /\ msg'.status # "error"
              /\ chunk.type = "final_result" => fullContent' = <<>>
              /\ (chunk.type # "final_result" /\ text # <<>> /\ chunk.is_task_complete)
                     => fullContent' = text /\ msg'.content = text
              /\ (chunk.type # "final_result" /\ text = CodeText /\ ~chunk.is_task_complete)
                     => fullContent' = text /\ msg'.content = text
              /\ (chunk.type # "final_result" /\ text = ProcessingText /\ ~chunk.is_task_complete)
                     => processingMessages' = Append(processingMessages, text)]_vars

\* C5 witness: a frame was consumed after two frames carrying an error, the
\* first of which also carried the content now accumulated
C5_Witness ==
    /\ pc = "streaming" /\ frames = 3
    /\ Len(collectedErrors) = 2
    /\ ~Truthy(lastFrame.error)
    /\ fullContent = CodeText
    /\ processingMessages = <<ProcessingText>>

\* C6: when the frame source throws, the Message ends with status error and
\* its content is "Error: <message>", whatever had been accumulated.
C6_ThrowGivesErrorMessage ==
    pc = "failed" =>
        /\ msg.status = "error"
        /\ msg.content = <<"Error:", Space>> \o thrown

\* C6 witness: the read failed after content had been accumulated and published
C6_Witness ==
    /\ pc = "failed" /\ thrown = ReadError
    /\ fullContent = CodeText /\ frames >= 2
    /\ msg.metadata.parsed_content.data = JString(CodeText)

\* C7: content accumulated before a failure is still shown after it.
C7_PartialContentPreserved ==
    (pc = "failed" /\ fullContent # <<>>) => msg.content = fullContent

\* C14: the Message gets status error only when the transport has failed (the
\* request, the response or a read); a frame of unexpected shape, such as a
\* non-terminal frame whose content is an object, does not put it in error.
C14_ErrorOnlyOnTransportFailure ==
    msg.status = "error" => thrown \in {HttpError, NoBodyError, ReadError}

\* C16: in every published state the artifacts of the Message are what the
\* extractor yields for its current content and retained raw object (at some
\* reading of the clock; no artifacts being the empty list).
C16_ArtifactsMatchContent ==
    \E t \in 0..MaxClock :
        msg.metadata.artifacts.list
            = extractArtifacts(msg.content, msg.metadata.raw_data, t)
(***************************************************************************)
(* Properties of the extractor and the classifier                          *)
(***************************************************************************)
IsInputRequiredObject(v) ==
    v.k = "object" /\ <<"status", <<"input_required">>>> \in v.fields

\* C8: for text content with no raw structured object the extractor emits no
\* json artifact whose content is an object with status input_required; when
\* such an object is the entire trimmed content the artifact list is empty.
C8_NoInputRequiredArtifact ==
    \A i \in 1..Len(exRuns) :
        ~IsObjectValue(exRaw) =>
            /\ \A j \in 1..Len(exRuns[i].artifacts) :
                   exRuns[i].artifacts[j].type = "json"
                       => ~IsInputRequiredObject(exRuns[i].artifacts[j].content)
            /\ Trim(exContent) \in {InputRequiredText, InputRequiredNoQuestion}
                   => exRuns[i].artifacts = <<>>

\* C8 witness: an input_required object inside free-form text next to another
\* object; the extractor has run and emitted an artifact
C8_Witness ==
    /\ exContent = <<Word>> \o InputRequiredText \o OtherObjectText
    /\ exRaw = Undefined
    /\ Len(exRuns) = 1
    /\ Len(exRuns[1].artifacts) = 1

\* C9: two runs of the extractor on the same content and raw structured
\* object, at any two times, yield identical artifact lists, ids included.
C9_ExtractionIdempotent ==
    Len(exRuns) = 2 => exRuns[1].artifacts = exRuns[2].artifacts

\* C10: the classifier has exactly three outcomes: input_required when the
\* whole content parses to an object with status input_required and a
\* question, artifact (data = the parsed object) when it parses to any other
\* object, message (data = the raw text) in every other case.
C10_ClassifierOutcomes ==
    exParsed.done =>
        LET parsed == JSONParse(exContent)
            result == exParsed.result
            prompt == /\ parsed.k = "object"
                      /\ <<"status", <<"input_required">>>> \in parsed.fields
                      /\ \E f \in parsed.fields : f[1] = "question" /\ f[2] # <<>>
        IN  /\ result.type \in {"input_required", "artifact", "message"}
            /\ result.type = "input_required" <=> prompt
            /\ result.type = "artifact" <=> (parsed.k \in {"object", "array"} /\ ~prompt)
            /\ result.type = "message" <=> parsed.k \notin {"object", "array"}
            /\ result.type \in {"input_required", "artifact"} => result.data = parsed
            /\ result.type = "message" => result.data = JString(exContent)

\* C10 witness: partially streamed JSON has been classified as a message
C10_Witness ==
    /\ exParsed.done
    /\ exContent = <<LBrace, KeyA>> \o InputRequiredNoQuestion
    /\ exParsed.result.type = "message"

(***************************************************************************)
(* Properties of the rendering                                             *)
(***************************************************************************)
\* C11: for content that is exactly one JSON object with status
\* input_required and a question q, parsed_content.type is input_required and
\* the rendered text is exactly q, with no JSON or code-fence residue.
C11_PromptRenderedExactly ==
    (exRendered.done /\ Trim(exContent) = InputRequiredText) =>
        /\ exParsed.result.type = "input_required"
        /\ exRendered.result = [kind |-> "text", text |-> <<"Which branch?">>]

\* C11 witness: the object, surrounded by white space, has been classified
\* and rendered
C11_Witness ==
    /\ exRendered.done
    /\ exContent = <<Space>> \o InputRequiredText \o <<Space>>
    /\ exRaw = Undefined

\* C12: when an object with status input_required and a question is embedded
\* in otherwise free-form text, the classifier reports type input_required
\* with that object as data, as it does when the object is the whole content.
C12_EmbeddedPromptClassified ==
    (/\ exParsed.done
     /\ \E i \in 1..(Len(exContent) - Len(InputRequiredText) + 1) :
            /\ SubSeq(exContent, i, i + Len(InputRequiredText) - 1) = InputRequiredText
            /\ \A j \in 1..Len(exContent) :
                   j \notin i..(i + Len(InputRequiredText) - 1) => exContent[j] \in {Word, Space}
            /\ \E j \in 1..Len(exContent) : exContent[j] = Word)
        => /\ exParsed.result.type = "input_required"
           /\ exParsed.result.data = JSONParse(InputRequiredText)

(***************************************************************************)
(* Properties of streamAgentQuery                                          *)
(***************************************************************************)
\* the payloads of the data lines among lines that parse, in order
RECURSIVE FramesOf(_)
FramesOf(lines) ==
    IF lines = <<>> THEN <<>>
    ELSE LET line == Head(lines)
             payload == SubSeq(line, 3, Len(line))
         IN  (IF Len(line) >= 2 /\ line[1] = DataTag /\ line[2] = Space /\ IsValue(payload)
              THEN <<JSONParse(payload)>> ELSE <<>>)
             \o FramesOf(Tail(lines))

\* the lines of the response body that are ended by a line feed
TerminatedLines ==
    LET lines == SplitLines(sseInput, 1, 1)
    IN  SubSeq(lines, 1, Len(lines) - 1)

\* C13: a data line whose payload is not valid JSON yields no frame and is
\* never fatal: the generator throws only when the transport fails, what it
\* has yielded is always a prefix of the well-formed frames of the body, in
\* order, and at the end of the body it has yielded all of them.
C13_MalformedFrameDropped ==
    LET expected == FramesOf(TerminatedLines)
    IN  /\ Len(sseYielded) <= Len(expected)
        /\ sseYielded = SubSeq(expected, 1, Len(sseYielded))
        /\ ssePc = "done" => sseYielded = expected
        /\ ssePc = "threw" => sseThrown \in {HttpError, NoBodyError, ReadError}

\* C13 witness: the body held a frame, a malformed data line and another
\* frame; both frames were yielded and the source is exhausted
C13_Witness ==
    /\ ssePc = "done"
    /\ sseInput = <<DataTag, Space, LBrace, RBrace, Newline,
                    DataTag, Space, LBrace, Newline,
                    DataTag, Space, LBrace, SummaryS, RBrace, Newline>>
    /\ Len(sseYielded) = 2

\* C15: no execution of streamAgentQuery ends with the reader still held,
\* whether the source was exhausted, the read failed or the consumer left.
C15_ReaderReleased ==
    ssePc \in {"done", "threw", "returned"} => sseReader # "held"

\* C15 witness: the consumer left its loop after the first chunk, with input
\* still unread, and the reader is released
C15_Witness ==
    /\ ssePc = "returned"
    /\ sseReader = "released"
    /\ Len(sseYielded) = 1
    /\ sseRest # <<>>

(***************************************************************************)
(* Properties of the retrieval engine                                      *)
(***************************************************************************)
\* the stored rows a search with this session_id ranges over
RowsInScope(session_id) ==
    {r \in dbRows : session_id.groups = <<>> \/ r.session_id = session_id}

\* C17: for a threshold t in [0,1] and a limit k in [1,50], search returns at
\* most k results, each a stored row in scope with similarity >= t, in
\* non-increasing order of similarity, and a row in scope with similarity >= t
\* is left out only if k results of at least its similarity are returned.
C17_SearchThresholdLimitOrder ==
    (/\ dbCall.tool = "vector_search_code"
     /\ dbCall.session_id.groups \in {<<>>, <<8, 4, 4, 4, 12>>}
     /\ dbCall.limit \in 1..50
     /\ dbCall.similarity_threshold \in 0..100)
        => /\ DOMAIN dbCall.response = {"total_results", "results"}
           /\ LET results == dbCall.response.results
                  k == dbCall.limit
                  t == dbCall.similarity_threshold
                  scope == RowsInScope(dbCall.session_id)
              IN  /\ Len(results) <= k
                  /\ \A i \in 1..Len(results) :
                         results[i] \in scope /\ results[i].similarity >= t
                  /\ \A i \in 1..Len(results), j \in 1..Len(results) :
                         /\ i < j => results[i].similarity >= results[j].similarity
                         /\ i # j => results[i] # results[j]
                  /\ \A r \in scope :
                         (r.similarity >= t /\ \A i \in 1..Len(results) : results[i] # r)
                             => /\ Len(results) = k
                                /\ \A i \in 1..Len(results) :
                                       results[i].similarity >= r.similarity

\* C17 witness: a search over all sessions with limit 2 and threshold 0.7 on
\* the full corpus returned two results and left out two rows that tie at 0.7
C17_Witness ==
    /\ dbRows = StoredChunks
    /\ dbCall.tool = "vector_search_code"
    /\ dbCall.session_id = NoSessionId
    /\ dbCall.limit = 2 /\ dbCall.similarity_threshold = 70
    /\ DOMAIN dbCall.response = {"total_results", "results"}
    /\ Len(dbCall.response.results) = 2

C19_SearchValidation ==
    (/\ dbCall.tool = "vector_search_code"
     /\ \/ dbCall.session_id.groups \notin {<<>>, <<8, 4, 4, 4, 12>>}
        \/ dbCall.limit \notin 1..50
        \/ dbCall.similarity_threshold \notin 0..100)
        => /\ DOMAIN dbCall.response = {"error"}
           /\ dbCall.response.error # <<>>

\* C19 witness: a search with limit 51 on a corpus of rows above the
\* threshold has been answered
C19_Witness ==
    /\ dbRows = StoredChunks
    /\ dbCall.tool = "vector_search_code"
    /\ dbCall.session_id = SessionId(1)
    /\ dbCall.limit = 51 /\ dbCall.similarity_threshold = 0
    /\ "error" \in DOMAIN dbCall.response

\* the text ends with .py
EndsWithDotPy(path) ==
    /\ Len(path) >= 3
    /\ SubSeq(path, Len(path) - 2, Len(path)) = <<46, 112, 121>>

\* a comes before b in the order of (file_path, chunk_index)
PathOrderBefore(a, b) ==
    LET m == IF Len(a.file_path) < Len(b.file_path)
             THEN Len(a.file_path) ELSE Len(b.file_path)
        differ == {i \in 1..m : a.file_path[i] # b.file_path[i]}
        first == CHOOSE i \in differ : \A j \in differ : i <= j
    IN  IF a.file_path = b.file_path THEN a.chunk_index < b.chunk_index
        ELSE IF differ = {} THEN Len(a.file_path) < Len(b.file_path)
        ELSE a.file_path[first] < b.file_path[first]

\* C20: search_code_by_file_path(pattern, session_id = S) returns exactly the
\* stored rows of S whose file_path matches the pattern case-sensitively
\* (%.py: the paths ending in .py; %: all rows of S; a.py: that path only),
\* never a row of another session, ordered by (file_path, chunk_index).
C20_SearchByPath ==
    (/\ dbCall.tool = "search_code_by_file_path"
     /\ dbCall.session_id.groups = <<8, 4, 4, 4, 12>>)
        => /\ DOMAIN dbCall.response = {"total_results", "results"}
           /\ LET results == dbCall.response.results
                  returned == {results[i] : i \in 1..Len(results)}
                  ofSession == {r \in dbRows : r.session_id = dbCall.session_id}
                  pat == dbCall.file_path_pattern
              IN  /\ returned \subseteq ofSession
                  /\ Cardinality(returned) = Len(results)
                  /\ \A i \in 1..Len(results), j \in 1..Len(results) :
                         i < j => PathOrderBefore(results[i], results[j])
                  /\ pat = <<37>> => returned = ofSession
                  /\ pat = <<37, 46, 112, 121>>
                         => returned = {r \in ofSession : EndsWithDotPy(r.file_path)}
                  /\ pat = <<97, 46, 112, 121>>
                         => returned = {r \in ofSession : r.file_path = <<97, 46, 112, 121>>}
                  /\ pat = <<115, 47, 37>>
                         => returned = {r \in ofSession :
                                           /\ Len(r.file_path) >= 2
                                           /\ SubSeq(r.file_path, 1, 2) = <<115, 47>>}
                  /\ pat = <<95, 46, 112, 121>>
                         => returned = {r \in ofSession :
                                           Len(r.file_path) = 4 /\ EndsWithDotPy(r.file_path)}

\* C20 witness: %.py in session 1 of the full corpus, which holds b.PY in
\* session 1 and a.py in session 2, returned a.py (two chunks) and s/c.py
C20_Witness ==
    /\ dbRows = StoredChunks
    /\ dbCall.tool = "search_code_by_file_path"
    /\ dbCall.session_id = SessionId(1)
    /\ dbCall.file_path_pattern = <<37, 46, 112, 121>>
    /\ Len(dbCall.response.results) = 3

(***************************************************************************)
(* Claims on the message store                                             *)
(***************************************************************************)
\* C21: once deleteSession(s) has succeeded (s was created and is no longer
\* in the session cache), the store holds no messages for s.
C21_DeletedSessionHoldsNoMessages ==
    \A s \in 1..MaxSessions :
        (/\ s <= serverSessions
         /\ \A i \in 1..Len(sessionsCache) : sessionsCache[i] # s)
        => getSessionMessages(s) = <<>>

\* the step is an update issued by the stream of invocation q
UpdateBy(q) == StreamUpdate(q) \/ StreamFinish(q) \/ StreamCatch(q)

\* C22: for queries submitted in one session at any clock values and with
\* their updates interleaved in any order, the message ids of a session are
\* pairwise distinct, a submit leaves its two messages in the list next to
\* all earlier ones, and an update issued by the stream of one query changes
\* no Message created by another query.
C22_MessageOwnedByItsStream ==
    [][/\ \A s \in 1..MaxSessions :
            \A i, j \in 1..Len(messagesCache'[s]) :
                i # j => messagesCache'[s][i].id # messagesCache'[s][j].id
       /\ \A q \in 1..MaxQueries :
            /\ (tasks[q].pc = "idle" /\ tasks'[q].pc = "streaming")
               => LET s == tasks'[q].session
                  IN /\ Len(messagesCache'[s]) = Len(messagesCache[s]) + 2
                     /\ \A i \in 1..Len(messagesCache[s]) :
                            messagesCache'[s][i] = messagesCache[s][i]
            /\ UpdateBy(q)
               => \A s \in 1..MaxSessions :
                     /\ Len(messagesCache'[s]) = Len(messagesCache[s])
                     /\ \A i \in 1..Len(messagesCache[s]) :
                            messagesCache[s][i].owner # q
                            => messagesCache'[s][i] = messagesCache[s][i]
      ]_vars

\* C23: a submit that is accepted (its stream starts) appends to the list of
\* its session exactly the user Message (complete, content = the query) and
\* right after it the agent placeholder (streaming, empty content), and
\* changes no other list; a submit of an empty or white-space query appends
\* nothing and starts no stream.
C23_SubmitAppendsPair ==
    [][\A q \in 1..MaxQueries :
          (tasks[q].pc = "idle" /\ tasks'[q].pc # "idle")
          => LET query == tasks'[q].query
                 s == tasks'[q].session
             IN /\ Trim(query) = <<>>
                   => /\ tasks'[q].pc = "returned"
                      /\ messagesCache' = messagesCache
                /\ tasks'[q].pc = "streaming"
                   => /\ messagesCache'[s] = messagesCache[s] \o
                            <<Message(tasks'[q].agentMessageId - 1, "user",
                                      query, "complete", q),
                              Message(tasks'[q].agentMessageId, "agent",
                                      <<>>, "streaming", q)>>
                      /\ \A r \in 1..MaxSessions :
                            r # s => messagesCache'[r] = messagesCache[r]
      ]_vars

\* one submit was accepted and is streaming, another one, of a query of white
\* space, has returned
C23_Witness ==
    \E q, r \in 1..MaxQueries :
        /\ tasks[q].pc = "streaming"
        /\ Len(messagesCache[tasks[q].session]) >= 2
        /\ tasks[r].pc = "returned"
        /\ tasks[r].query = <<Space>>

(***************************************************************************)
(* Claims on the accumulators of handleSearch                              *)
(***************************************************************************)
\* C24: fullContent is last-write-wins: when a genuine content frame with
\* content c2 is applied right after a genuine content frame with content
\* c1, fullContent is c2 and not c1 followed by c2.
C24_LastWriteWins ==
    [][(FrameStep /\ IsGenuineContent(lastFrame) /\ IsGenuineContent(lastFrame'))
          => /\ fullContent' = lastFrame'.content.text
             /\ fullContent' # lastFrame.content.text \o lastFrame'.content.text]_vars

\* two genuine content frames with different contents have been applied one
\* after the other
C24_Witness ==
    /\ frames >= 2
    /\ prevGenuine = CodeText
    /\ IsGenuineContent(lastFrame)
    /\ lastFrame.content.text = InputRequiredText
    /\ fullContent = InputRequiredText

\* C25: a non-terminal content frame classified as a processing fragment is
\* appended to the end of processingMessages and leaves fullContent as it
\* was; no step ever removes or reorders an entry of processingMessages: it
\* stays the same or grows by one entry at its end.
C25_ProcessingAppended ==
    [][/\ (FrameStep /\ IsProcessingShaped(lastFrame'))
            => /\ processingMessages' = Append(processingMessages, lastFrame'.content.text)
               /\ fullContent' = fullContent
       /\ \/ processingMessages' = processingMessages
          \/ /\ Len(processingMessages') = Len(processingMessages) + 1
             /\ SubSeq(processingMessages', 1, Len(processingMessages))
                    = processingMessages]_vars

\* two processing fragments have been appended in arrival order after genuine
\* content, which is still held
C25_Witness ==
    /\ frames = 3
    /\ processingMessages = <<ProcessingText, TaskListText>>
    /\ fullContent = CodeText

\* C26: after every applied frame the published Message carries parsed_content
\* and artifacts computed from the current fullContent and the retained raw
\* object.
C26_PublishedStateRecomputed ==
    [][(FrameStep /\ pc' = "streaming")
          => /\ msg'.metadata.artifacts =
                    [present |-> TRUE,
                     list |-> extractArtifacts(fullContent', lastMetadata'.raw_data, now')]
             /\ msg'.metadata.parsed_content = parseAgentContent(fullContent')]_vars

\* fullContent after a terminal frame with content, as the claim words it
ProjectedContent(content) ==
    IF content.k = "object" /\ \E f \in content.fields : f[1] = "summary"
    THEN Field(content, "summary")
    ELSE IF content.k = "string" THEN content.text
    ELSE Stringify(content)

\* C27 as stated: for every frame with is_task_complete and content present,
\* fullContent becomes the summary of a structured content with a summary
\* field, the content itself if it is a string, the stringified content
\* otherwise; the content is retained as raw object and the published status
\* is complete.
C27_TerminalContent_Original ==
    [][(FrameStep /\ lastFrame'.is_task_complete /\ Truthy(lastFrame'.content))
          => /\ fullContent' = ProjectedContent(lastFrame'.content)
             /\ lastMetadata'.raw_data = lastFrame'.content
             /\ msg'.metadata.raw_data = lastFrame'.content
             /\ msg'.status = "complete"]_vars

\* C27 amended: the same for frames whose type is not final_result, the
\* summary being taken when it is not empty.
C27_TerminalContent ==
    [][(FrameStep /\ lastFrame'.is_task_complete /\ Truthy(lastFrame'.content)
          /\ lastFrame'.type # "final_result")
          => /\ fullContent' =
                    (IF lastFrame'.content.k = "object"
                        /\ \E f \in lastFrame'.content.fields :
                               f[1] = "summary" /\ f[2] # <<>>
                     THEN Field(lastFrame'.content, "summary")
                     ELSE IF lastFrame'.content.k = "string"
                     THEN lastFrame'.content.text
                     ELSE Stringify(lastFrame'.content))
             /\ lastMetadata'.raw_data = lastFrame'.content
             /\ msg'.metadata.raw_data = lastFrame'.content
             /\ msg'.status = "complete"]_vars

\* a terminal frame whose content is an object with a summary has been
\* applied: the summary is the content, the object is retained
C27_Witness ==
    /\ frames >= 1
    /\ lastFrame.is_task_complete /\ lastFrame.type # "final_result"
    /\ lastFrame.content = SummaryObject
    /\ fullContent = <<"def">>
    /\ msg.metadata.raw_data = SummaryObject
    /\ msg.status = "complete"

(***************************************************************************)
(* Claims on the priority of the extractor rules                           *)
(***************************************************************************)
\* the raw object has the recognized domain shape
HasDomainShape(raw) ==
    /\ raw.k = "object"
    /\ \E f \in raw.fields :
           f[1] = "repository_analysis" /\ JSONParse(f[2]).k \in {"object", "array"}

\* the artifact list is one artifact of the type, with the id prefix and
\* the content given
OnlyArtifact(artifacts, prefix, type, content) ==
    /\ Len(artifacts) = 1
    /\ artifacts[1].id[1] = prefix
    /\ artifacts[1].type = type
    /\ artifacts[1].content = content

\* C28 as stated: a raw object of the recognized domain shape gives exactly
\* one specialized artifact, any other raw object exactly one generic json
\* artifact, and with no raw object a content that is JSON as a whole and not
\* input_required exactly one json artifact; nothing else is added.
C28_FirstMatchWins_Original ==
    \A i \in 1..Len(exRuns) :
        LET artifacts == exRuns[i].artifacts
            parsed == JSONParse(Trim(exContent))
        IN  /\ HasDomainShape(exRaw)
                => OnlyArtifact(artifacts, "artifact_repo_analysis", "repository_analysis",
                                JSONParse(Field(exRaw, "repository_analysis")))
            /\ (exRaw.k \in {"object", "array"} /\ ~HasDomainShape(exRaw))
                => OnlyArtifact(artifacts, "artifact_json", "json", exRaw)
            /\ (exRaw.k \notin {"object", "array"} /\ parsed # Invalid
                    /\ ~IsInputRequiredObject(parsed))
                => OnlyArtifact(artifacts, "artifact_json", "json", parsed)

\* C28 amended: the same, the third case being a content that parses as a
\* whole to a JSON object or array that is not input_required.
C28_FirstMatchWins ==
    \A i \in 1..Len(exRuns) :
        LET artifacts == exRuns[i].artifacts
            parsed == JSONParse(Trim(exContent))
        IN  /\ HasDomainShape(exRaw)
                => OnlyArtifact(artifacts, "artifact_repo_analysis", "repository_analysis",
                                JSONParse(Field(exRaw, "repository_analysis")))
            /\ (exRaw.k \in {"object", "array"} /\ ~HasDomainShape(exRaw))
                => OnlyArtifact(artifacts, "artifact_json", "json", exRaw)
            /\ (exRaw.k \notin {"object", "array"} /\ parsed.k \in {"object", "array"}
                    /\ ~IsInputRequiredObject(parsed))
                => OnlyArtifact(artifacts, "artifact_json", "json", parsed)

\* the extractor has run on a raw object of the domain shape next to a
\* content that is a JSON object itself: the one artifact is the specialized
\* one
C28_Witness ==
    /\ exRaw = RepoObject
    /\ exContent = OtherObjectText
    /\ Len(exRuns) >= 1
    /\ Len(exRuns[1].artifacts) = 1
    /\ exRuns[1].artifacts[1].type = "repository_analysis"

\* C29: when the raw structured object is an object with status
\* input_required, the extractor emits no artifact.
C29_NoArtifactForRawPrompt ==
    \A i \in 1..Len(exRuns) :
        IsInputRequiredObject(exRaw) => exRuns[i].artifacts = <<>>

\* the inner text of a fenced region: what stands between the fences, after
\* the language tag if there is one
FenceInner(block) ==
    LET body == SubSeq(block, 2, Len(block) - 1)
    IN  Trim(IF body # <<>> /\ body[1] = JsonTag THEN Tail(body) ELSE body)

\* C30: when the rules for fenced regions apply (no raw object, content not
\* JSON as a whole), the code artifacts are, in document order, exactly the
\* fenced regions whose inner text is not an input_required JSON object,
\* whether the fence is bare or carries the language tag json.
C30_FencedPromptsOmitted ==
    \A i \in 1..Len(exRuns) :
        (~IsObjectValue(exRaw) /\ ~IsObjectValue(JSONParse(Trim(exContent))))
        => LET kept == SelectSeq(FenceMatches(exContent),
                           LAMBDA b : ~IsInputRequiredObject(JSONParse(FenceInner(b))))
               codes == SelectSeq(exRuns[i].artifacts, LAMBDA a : a.type = "code")
           IN  /\ Len(codes) = Len(kept)
               /\ \A j \in 1..Len(kept) : codes[j].content = JString(kept[j])

(***************************************************************************)
(* Claims on the file-list rule and on classifier and extractor together   *)
(***************************************************************************)
\* lexeme p of s lies inside a fenced region: an odd number of fences stand
\* before it and one more follows
InsideFence(s, p) ==
    /\ Cardinality({i \in 1..(p - 1) : s[i] = Fence}) % 2 = 1
    /\ \E i \in (p + 1)..Len(s) : s[i] = Fence

\* the path-shaped tokens of s outside fenced regions, in document order: the
\* runs between white space that have the shape of a path
RECURSIVE OutsidePathTokens(_, _)
OutsidePathTokens(s, p) ==
    IF p > Len(s) THEN <<>>
    ELSE IF s[p] \in WhiteSpace THEN OutsidePathTokens(s, p + 1)
    ELSE LET e == RunEnd(s, p)
             run == SubSeq(s, p, e)
         IN  (IF IsPathRun(run) /\ ~InsideFence(s, p) THEN <<run>> ELSE <<>>)
             \o OutsidePathTokens(s, e + 1)

\* C31: when the rules for text apply (no raw object, content not a JSON
\* object as a whole), there is a file-list artifact exactly when more than
\* three path-shaped tokens stand outside fenced regions; it is the only one
\* and it lists all of them.
C31_FileListExactlyWhenMoreThanThree ==
    \A i \in 1..Len(exRuns) :
        (~IsObjectValue(exRaw) /\ ~IsObjectValue(JSONParse(Trim(exContent))))
        => LET tokens == OutsidePathTokens(exContent, 1)
               lists == SelectSeq(exRuns[i].artifacts, LAMBDA a : a.type = "file_list")
           IN  /\ Len(lists) = (IF Len(tokens) > 3 THEN 1 ELSE 0)
               /\ \A j \in 1..Len(lists) : lists[j].content = JList(tokens)

(***************************************************************************)
(* Claims on the end of a stream and on the component state                *)
(***************************************************************************)
\* C32: no finished stream leaves its agent Message in status streaming: the
\* Message that an invocation of handleSearch created has status complete or
\* error once that invocation is done.
C32_FinishedStreamIsTerminal ==
    \A q \in 1..MaxQueries :
        tasks[q].pc = "done"
        => \A s \in 1..MaxSessions :
              \A i \in 1..Len(messagesCache[s]) :
                  (messagesCache[s][i].owner = q /\ messagesCache[s][i].type = "agent")
                  => messagesCache[s][i].status \in {"complete", "error"}

\* C33: an invocation of handleSearch with a query that is not blank, made
\* while no session is current, creates exactly one session and submits the
\* query in that session.
C33_QuickSessionSubmitsQuery ==
    [][\A q \in 1..MaxQueries :
          (/\ tasks[q].pc = "idle"
           /\ tasks'[q].pc # "idle"
           /\ Trim(tasks'[q].query) # <<>>
           /\ currentSession = NoSession)
          => /\ serverSessions' = serverSessions + 1
             /\ tasks'[q].pc = "streaming"
             /\ tasks'[q].session = currentSession'
             /\ Len(messagesCache'[currentSession']) = 2]_vars


\* the payloads of the well-formed data lines of a body, in the order of the
\* body, whatever the chunks
WellFormedFrames(body) ==
    LET lines == SplitLines(body, 1, 1)
        good == SelectSeq(lines,
                    LAMBDA line : DataPayload(line) \notin {Undefined, Invalid})
    IN  [i \in 1..Len(good) |-> DataPayload(good[i])]

\* C34: once the source has ended, the frames yielded by streamAgentQuery are
\* the payloads of the well-formed data lines of the body, each once and in
\* the order of the body, the last line before the end included, however
\* the body was cut into chunks.
C34_FramesIndependentOfChunking ==
    ssePc = "done" => sseYielded = WellFormedFrames(sseInput)


C36_SearchingWhileStreamOpen ==
    (\E q \in 1..MaxQueries : tasks[q].pc = "streaming") => isSearching


\* C37: when the messages of session s have been cleared while a stream for
\* s is in flight and no query has been submitted since, an update from that
\* stream leaves the store as it is, so getSessionMessages(s) stays empty;
\* and a stream whose placeholder is gone never gets a Message again.
C37_UpdateAfterClearIsNoOp ==
    [][\A q \in 1..MaxQueries :
          /\ ((StreamUpdate(q) \/ StreamFinish(q) \/ StreamCatch(q))
                  /\ getSessionMessages(tasks[q].session) = <<>>)
              => messagesCache' = messagesCache
          /\ (/\ tasks[q].pc = "streaming"
              /\ \A s \in 1..MaxSessions : \A i \in 1..Len(messagesCache[s]) :
                     messagesCache[s][i].owner # q)
              => \A s \in 1..MaxSessions : \A i \in 1..Len(messagesCache'[s]) :
                     messagesCache'[s][i].owner # q]_vars

\* the stream of an invocation has ended after an update of it found the
\* conversation cleared, and the store of its session is empty
C37_Witness ==
    \E q \in 1..MaxQueries :
        /\ tasks[q].pc = "done"
        /\ tasks[q].missed
        /\ getSessionMessages(tasks[q].session) = <<>>


\* C39: after any sequence of createSession, setActiveSession,
\* clearActiveSession and deleteSession, getActiveSession is a session of the
\* cache or none, never a deleted one; deleting the active session makes the
\* first remaining session of the cache active (none when the cache is
\* empty); deleting another session leaves the active session as it was; a
\* deleteSession whose request fails changes neither cache nor active session.
C39_ActiveSessionNeverDeleted ==
    [][/\ \/ getActiveSession' = NoSession
          \/ \E i \in 1..Len(sessionsCache') : sessionsCache'[i] = getActiveSession'
       /\ \A sessionId \in 1..MaxCreated :
             /\ deleteSession(sessionId)
                 => /\ \A i \in 1..Len(sessionsCache') : sessionsCache'[i] # sessionId
                    /\ IF activeSessionId = sessionId
                       THEN getActiveSession' =
                                IF Len(sessionsCache') > 0 THEN sessionsCache'[1]
                                ELSE NoSession
                       ELSE /\ activeSessionId' = activeSessionId
                            /\ getActiveSession' = getActiveSession
             /\ deleteSessionFails(sessionId)
                 => /\ sessionsCache' = sessionsCache
                    /\ activeSessionId' = activeSessionId]_vars

\* the active session was deleted while an older session was cached, which is
\* now the active one
C39_Witness ==
    /\ serverSessions >= 2
    /\ Len(sessionsCache) >= 1
    /\ \A i \in 1..Len(sessionsCache) : sessionsCache[i] # serverSessions
    /\ activeSessionId = sessionsCache[1]
    /\ getActiveSession = sessionsCache[1]


\* C38: with no raw structured object, the classifier reports the type
\* artifact exactly when the extractor returns a single structured-data
\* artifact whose content is the data of the classification; content
\* classified as artifact never has an empty artifact list.
C38_ClassifierAndExtractorAgree ==
    (exRaw = Undefined /\ exParsed.done)
    => \A i \in 1..Len(exRuns) :
          LET artifacts == exRuns[i].artifacts
          IN  /\ exParsed.result.type = "artifact"
                  <=> /\ Len(artifacts) = 1
                      /\ artifacts[1].type = "json"
                      /\ artifacts[1].content = exParsed.result.data
              /\ exParsed.result.type = "artifact" => artifacts # <<>>

====
